---- MODULE Spec2Model ----
(***************************************************************************)
(* Verification model of the multi-tenant request substrate of             *)
(* rouptimize-back: refresh-token rotation, the company-balance gate, the  *)
(* request-context interceptor and invite-code registration.               *)
(*                                                                         *)
(* Every database statement the code awaits is one atomic step; the local  *)
(* computation that follows a statement (a comparison, a throw) belongs to *)
(* the step of that statement.                                             *)
(***************************************************************************)
EXTENDS Integers, Naturals, Sequences, FiniteSets, TLC

Null == "null"
NoId == 0

Min2(a, b) == IF a < b THEN a ELSE b

(***************************************************************************)
(* State                                                                   *)
(***************************************************************************)

VARIABLES
  \* refresh tokens
  tokens,     \* refresh_tokens table: sequence of rows, id = index
  nextFamily, \* number of family ids drawn so far (uuidv4 is fresh)
  now,        \* clock, in days
  tpc,        \* per caller: position inside rotateRefreshToken, or its outcome
  targ,       \* per caller: id of the row the call read
  tstored,    \* per caller: what the call keeps of the row it read (owner, familyId)
  tlate,      \* history: the presented token was already rotated or killed when the call read it
  killed,     \* history: ids revoked by a family revocation
  \* company balance
  bal,        \* company_balance: the committed row of the company, or NoBal
  binit,      \* history: the committed row at the start
  bowner,     \* the request holding the row (0: none)
  bdirty,     \* the uncommitted row version of bowner
  purchases,  \* company_balance_purchase: committed rows, in commit order
  bpend,      \* per request: its uncommitted purchase rows
  month,      \* date_trunc('month', now()), as a month number
  bpc,        \* per request: position
  bop,        \* per request: the operation of its handler
  bcur,       \* per request: `current`, the row getOrInit returned
  bres,       \* per request: outcome
  \* request pipeline
  atype,      \* the actor's type: the table its row lives in
  actor,      \* the actor's row, or NoRow
  adminOps,   \* number of changes made to the actor's row
  conns,      \* the pool: per connection its holder, transaction state, role and session variables
  rpc,        \* per request: position
  ruser,      \* per request: request.user
  rdata,      \* per request: the request context (data, then effectiveData)
  rrow,       \* history: the actor row as it was when the refresh selected it (<<>>: no select)
  rconn,      \* per request: the connection it acquired (0: none)
  rran,       \* history: the handler was started
  rlast,      \* history: company of the row the handler touched last
  rerr,       \* per request: the error, or the answer, being carried to the end
  rres,       \* per request: outcome
  ncommit,    \* history: COMMITs issued for the request
  nrollback,  \* history: ROLLBACKs issued for the request
  nrelease,   \* history: releases of the request's connection
  rcancel,    \* per request: where it was when the client went away ("no": still subscribed)
  \* invite registration
  invite,     \* driver_invite: the committed row of the one invite
  musers,     \* mobile_user: committed rows of the invite's company, in commit order
  ilock,      \* the call holding the invite row's lock (0: none)
  inow,       \* clock
  ipc,        \* per call: position
  idto,       \* per call: the request body
  icreated,   \* per call: its uncommitted mobile_user row
  imark,      \* per call: its uncommitted version of the invite row (<<>>: none)
  ierr,       \* per call: the error, or the answer, being carried to the end
  ires,       \* per call: outcome
  ilate,      \* history: a registration had committed when the call started
  iundone,    \* history: number of writes of the call that were rolled back
  ifault,     \* history: a statement of the call failed in the database
  \* authorization guard
  gtokens,    \* the access tokens issued so far: their claims
  gpc,        \* per request: position
  guser,      \* per request: request.user
  groute,     \* per request: the route the guard decided for (<<>>: none yet)
  gres,       \* per request: the rule that allowed it, or Forbidden
  gflag,      \* history: the stored isSuperAdmin of the actor when the guard decided
  \* branch narrowing
  vehicles,   \* vehicles: the rows of the actor's company
  lpc,        \* per list query: position
  lctx,       \* per list query: the request context in force
  lq,         \* per list query: the branchId query parameter
  leff,       \* per list query: the effective branch id
  lrows,      \* per list query: the rows returned
  \* the row-level security policy: one session under the restricted role
  psess,      \* role's session: app.is_superadmin, app.current_company_id
  ptable,     \* a tenant table: row id -> the row's companyId, or no row
  pseen,      \* the rows the last SELECT returned
  pres,       \* outcome of the last statement
  \* the queue context bridge: publishTenant, the queue, one consumeTenant callback
  queue,      \* messages published and not yet delivered
  qpub,       \* outcome of the last publish call
  cpc,        \* consumer callback: position
  cmsg,       \* the message being handled
  cctx,       \* parsed.requestContext
  cstore,     \* the context the handler runs in
  csess,      \* the consumer's client: role and session variables, in its transaction
  cheld,      \* the consumer holds a client of the pool
  cerr,       \* an error is being carried to the end of the callback
  cres,       \* what the callback answered for the last message
  \* driver invites: createInvite, revokeInvite and registrations on driver_invite
  dinv,       \* driver_invite, committed: invite id -> [driverId, state]
  dlock,      \* row lock on each driver_invite row: the call holding it, 0 = free
  dpc,        \* position of each call
  dop,        \* what each call is: create, revoke or register
  ddto,       \* the argument of each call: [driverId, branch, inviteCode]
  dseen,      \* the invite id the call's lookup returned, 0 = none
  dwrite,     \* the call's uncommitted write: [kind, id]
  dres,       \* what the call answered
  \* lookups that open a transaction of their own: pickSeed, findByUsername, findByIdWithRlsBootstrap
  okind,      \* which lookup each call is
  oarg,       \* what the call was given: a companyId or none (pickSeed), the scope of the seed (findByIdWithRlsBootstrap)
  opc,        \* position of each call
  oseen,      \* what the call's lookup returned
  otxn,       \* the call's connection is inside a transaction
  ofault,     \* a statement of the call was rejected by the database
  ocommit,    \* COMMIT statements the call has issued
  orollback,  \* ROLLBACK statements the call has issued
  orelease,   \* times the call has released its connection
  ores        \* what the call answers (or will answer once released)

varsTok == <<tokens, nextFamily, now, tpc, targ, tstored, tlate, killed>>
varsBal == <<bal, binit, bowner, bdirty, purchases, bpend, month, bpc, bop, bcur, bres>>

varsReq == <<atype, actor, adminOps, conns, rpc, ruser, rdata, rrow, rconn, rran, rlast,
             rerr, rres, ncommit, nrollback, nrelease>>

varsInv == <<invite, musers, ilock, inow, ipc, idto, icreated, imark, ierr, ires, ilate,
             iundone, ifault>>

varsGuard == <<gtokens, gpc, guser, groute, gres, gflag>>

varsCancel == <<rcancel>>

varsBranch == <<vehicles, lpc, lctx, lq, leff, lrows>>

varsPolicy == <<psess, ptable, pseen, pres>>

varsQueue == <<queue, qpub, cpc, cmsg, cctx, cstore, csess, cheld, cerr, cres>>

varsDrv == <<dinv, dlock, dpc, dop, ddto, dseen, dwrite, dres>>

varsOut == <<okind, oarg, opc, oseen, otxn, ofault, ocommit, orollback, orelease, ores>>

vars == <<varsTok, varsBal, varsReq, varsInv, varsGuard, varsCancel, varsBranch, varsPolicy, varsQueue, varsDrv, varsOut>>

\* the state outside each part
otherThanTok == <<varsOut, varsDrv, varsQueue, varsPolicy, varsBranch, varsBal, varsReq, varsInv, varsGuard, varsCancel>>
otherThanBal == <<varsOut, varsDrv, varsQueue, varsPolicy, varsBranch, varsTok, varsReq, varsInv, varsGuard, varsCancel>>
otherThanReq == <<varsOut, varsDrv, varsQueue, varsPolicy, varsBranch, varsTok, varsBal, varsInv, varsGuard, varsCancel>>
otherThanInv == <<varsOut, varsDrv, varsQueue, varsPolicy, varsBranch, varsTok, varsBal, varsReq, varsGuard, varsCancel>>
otherThanCancel == <<varsOut, varsDrv, varsQueue, varsPolicy, varsBranch, varsTok, varsBal, varsReq, varsInv, varsGuard>>
otherThanBranch == <<varsOut, varsDrv, varsQueue, varsPolicy, varsTok, varsBal, varsReq, varsInv, varsGuard, varsCancel>>
otherThanPolicy == <<varsOut, varsDrv, varsQueue, varsTok, varsBal, varsReq, varsInv, varsGuard, varsCancel, varsBranch>>
otherThanQueue == <<varsOut, varsDrv, varsTok, varsBal, varsReq, varsInv, varsGuard, varsCancel, varsBranch, varsPolicy>>
otherThanDrv == <<varsOut, varsTok, varsBal, varsReq, varsInv, varsGuard, varsCancel, varsBranch, varsPolicy, varsQueue>>
otherThanOut == <<varsTok, varsBal, varsReq, varsInv, varsGuard, varsCancel, varsBranch, varsPolicy, varsQueue, varsDrv>>
\* the guard part reads the actor's row, which the pipeline part owns
otherThanGuard == <<varsOut, varsDrv, varsQueue, varsPolicy, varsBranch, varsTok, varsBal, varsInv, varsCancel, atype, actor, adminOps, conns, rpc, ruser,
                    rdata, rrow, rconn, rran, rlast, rerr, rres, ncommit, nrollback,
                    nrelease>>

(***************************************************************************)
(* Part 1. Refresh tokens (RefreshTokenService).  The service uses the     *)
(* pool-level handle, so every statement commits on its own.               *)
(***************************************************************************)

\* bounds
MaxTokens == 3
NumTokProcs == 2
MaxNow == 2
\* REFRESH_TOKEN_EXPIRATION_DAYS as configured for the model
ExpiresInDays == 1

TokProcs == 1..NumTokProcs
Owners == {"web", "mobile"}

NoStored == [owner |-> "none", familyId |-> NoId]


\* bcrypt.hash / bcrypt.compare: only the hash is stored
Hash(secret) == <<"bcrypt", secret>>
Compare(secret, hash) == hash = Hash(secret)

\* the secret of the token stored in row id (uuidv4: unique per token)
SecretOf(id) == 100 + id
WrongSecret == 99

\* oldToken.split('.') : id 0 or secret 0 stand for an empty part
Malformed(tok) == tok.id = NoId \/ tok.secret = 0

\* an id part that is not empty and not the text of a uuid
BadId == 98

\* WHERE id = $1 on the uuid column: the database refuses a parameter that is
\* not the text of a uuid (invalid input syntax for type uuid)
QueryFails(id) == id = BadId

TokIds == DOMAIN tokens

FamilyRows(fam) == {i \in TokIds : tokens[i].familyId = fam}

\* history: ids whose rotation has succeeded (a successor row names them)
rotated == {tokens[i].parent : i \in TokIds} \ {NoId}

\* the outcomes of a call: of rotateRefreshToken, Unauthorized or rotated; of
\* revokeRefreshToken, revoked (it returned); error and revokeError: the call
\* threw the database's error
TokDone == {"Unauthorized", "rotated", "error", "revoked", "revokeError"}

\* generateRefreshToken: the row of INSERT ... RETURNING id
NewTokenRow(owner, fam, parent) ==
  [owner |-> owner,
   tokenHash |-> Hash(SecretOf(Len(tokens) + 1)),
   expiresAt |-> now + ExpiresInDays,
   isRevoked |-> FALSE,
   familyId |-> fam,
   parent |-> parent]

\* a generateRefreshToken that draws a new family id whatever it is given
generateRefreshTokenNewFamily(owner, familyId, parent) ==
  /\ tokens' = Append(tokens, NewTokenRow(owner, nextFamily + 1, parent))
  /\ nextFamily' = nextFamily + 1

generateRefreshToken(owner, familyId, parent) ==
  LET newFamilyId == IF familyId # NoId THEN familyId ELSE nextFamily + 1
  IN /\ tokens' = Append(tokens, NewTokenRow(owner, newFamilyId, parent))
     /\ nextFamily' = IF familyId # NoId THEN nextFamily ELSE nextFamily + 1

\* a revocation whose WHERE compares the id column with the family id
revokeFamilyById(fam) ==
  [i \in TokIds |-> IF i = fam
                    THEN [tokens[i] EXCEPT !.isRevoked = TRUE] ELSE tokens[i]]

\* revokeFamily: UPDATE ... SET isRevoked = true WHERE familyId = $1
revokeFamily(fam) ==
  [i \in TokIds |-> IF tokens[i].familyId = fam
                    THEN [tokens[i] EXCEPT !.isRevoked = TRUE] ELSE tokens[i]]

\* UPDATE ... SET isRevoked = true WHERE id = $1
revokeById(id) ==
  [i \in TokIds |-> IF i = id THEN [tokens[i] EXCEPT !.isRevoked = TRUE] ELSE tokens[i]]

\* the tokens presented: without an id or without a secret, with the id of a
\* row that may exist and a wrong or the right secret, with an id that is no uuid
PresentedTokens ==
  {[id |-> NoId, secret |-> WrongSecret], [id |-> 1, secret |-> 0]}
    \cup {[id |-> i, secret |-> WrongSecret] : i \in 1..MaxTokens}
    \cup {[id |-> i, secret |-> SecretOf(i)] : i \in 1..MaxTokens}
    \cup {[id |-> BadId, secret |-> WrongSecret]}

InitTok ==
  /\ tokens = <<>>
  /\ nextFamily = 0
  /\ now = 0
  /\ tpc = [p \in TokProcs |-> "idle"]
  /\ targ = [p \in TokProcs |-> NoId]
  /\ tstored = [p \in TokProcs |-> NoStored]
  /\ tlate = [p \in TokProcs |-> FALSE]
  /\ killed = {}

\* login: generateRefreshToken(user.id, null) / generateRefreshToken(null, mobileUser.id)
Login(p, owner) ==
  /\ tpc[p] = "idle"
  /\ Len(tokens) < MaxTokens
  /\ generateRefreshToken(owner, NoId, NoId)
  /\ UNCHANGED <<now, tpc, targ, tstored, tlate, killed>>
  /\ UNCHANGED otherThanTok

\* the checks rotateRefreshToken makes on the row it read, in the code's order:
\* the position the call continues at, or its outcome
rotateChecks(tok, storedToken) ==
  IF storedToken.isRevoked THEN "revokeFamily"
  ELSE IF ~Compare(tok.secret, storedToken.tokenHash) THEN "Unauthorized"
  ELSE IF now > storedToken.expiresAt THEN "Unauthorized"
  ELSE "invalidate"

\* rotateRefreshToken, up to and including the SELECT and the checks made on its result
RotateSelect(p, tok) ==
  /\ tpc[p] = "idle"
  /\ IF Malformed(tok) \/ QueryFails(tok.id) \/ tok.id \notin TokIds
     THEN /\ tpc' = [tpc EXCEPT ![p] =
               IF ~Malformed(tok) /\ QueryFails(tok.id) THEN "error" ELSE "Unauthorized"]
          /\ targ' = targ
          /\ tstored' = tstored
          /\ tlate' = tlate
     ELSE LET storedToken == tokens[tok.id] IN
          /\ targ' = [targ EXCEPT ![p] = tok.id]
          /\ tstored' = [tstored EXCEPT ![p] =
                           [owner |-> storedToken.owner, familyId |-> storedToken.familyId]]
          /\ tlate' = [tlate EXCEPT ![p] = tok.id \in (rotated \cup killed)]
          /\ tpc' = [tpc EXCEPT ![p] = rotateChecks(tok, storedToken)]
  /\ UNCHANGED <<tokens, nextFamily, now, killed>>
  /\ UNCHANGED otherThanTok

\* reuse detected: revoke the whole family, then throw
RotateRevokeFamily(p) ==
  /\ tpc[p] = "revokeFamily"
  /\ tokens' = revokeFamily(tstored[p].familyId)
  /\ killed' = killed \cup FamilyRows(tstored[p].familyId)
  /\ tpc' = [tpc EXCEPT ![p] = "Unauthorized"]
  /\ UNCHANGED <<nextFamily, now, targ, tstored, tlate>>
  /\ UNCHANGED otherThanTok

\* "Invalidate old token"
RotateInvalidate(p) ==
  /\ tpc[p] = "invalidate"
  /\ tokens' = revokeById(targ[p])
  /\ tpc' = [tpc EXCEPT ![p] = "issue"]
  /\ UNCHANGED <<nextFamily, now, targ, tstored, tlate, killed>>
  /\ UNCHANGED otherThanTok

\* "Generate new one"
RotateIssue(p) ==
  /\ tpc[p] = "issue"
  /\ Len(tokens) < MaxTokens
  /\ generateRefreshToken(tstored[p].owner, tstored[p].familyId, targ[p])
  /\ tpc' = [tpc EXCEPT ![p] = "rotated"]
  /\ UNCHANGED <<now, targ, tstored, tlate, killed>>
  /\ UNCHANGED otherThanTok

\* the caller has its answer and is free for the next call
RotateReturn(p) ==
  /\ tpc[p] \in TokDone
  /\ tpc' = [tpc EXCEPT ![p] = "idle"]
  /\ targ' = [targ EXCEPT ![p] = NoId]
  /\ tstored' = [tstored EXCEPT ![p] = NoStored]
  /\ tlate' = [tlate EXCEPT ![p] = FALSE]
  /\ UNCHANGED <<tokens, nextFamily, now, killed>>
  /\ UNCHANGED otherThanTok

\* revokeRefreshToken (logout)
revokeRefreshToken(p, tok) ==
  /\ tpc[p] = "idle"
  /\ IF Malformed(tok)
     THEN tokens' = tokens /\ tpc' = [tpc EXCEPT ![p] = "revoked"]
     ELSE IF QueryFails(tok.id)
     THEN tokens' = tokens /\ tpc' = [tpc EXCEPT ![p] = "revokeError"]
     ELSE tokens' = revokeById(tok.id) /\ tpc' = [tpc EXCEPT ![p] = "revoked"]
  /\ UNCHANGED <<nextFamily, now, targ, tstored, tlate, killed>>
  /\ UNCHANGED otherThanTok

TickTok ==
  /\ now < MaxNow
  /\ now' = now + 1
  /\ UNCHANGED <<tokens, nextFamily, tpc, targ, tstored, tlate, killed>>
  /\ UNCHANGED otherThanTok

NextTok ==
  \/ \E p \in TokProcs, o \in Owners : Login(p, o)
  \/ \E p \in TokProcs, tok \in PresentedTokens : RotateSelect(p, tok)
  \/ \E p \in TokProcs : RotateRevokeFamily(p)
  \/ \E p \in TokProcs : RotateInvalidate(p)
  \/ \E p \in TokProcs : RotateIssue(p)
  \/ \E p \in TokProcs : RotateReturn(p)
  \/ \E p \in TokProcs, tok \in PresentedTokens : revokeRefreshToken(p, tok)
  \/ TickTok

(***************************************************************************)
(* Part 2. The company-balance gate (CompanyBalanceService), called from   *)
(* handlers inside the request transaction.  One company's balance row is  *)
(* modelled with the row versions of READ COMMITTED: the committed row,    *)
(* and the uncommitted version of the one transaction that holds the row   *)
(* lock (or the primary-key entry of its uncommitted INSERT).  A statement *)
(* that must write the row waits while another transaction holds it and    *)
(* then evaluates its WHERE clause on the version it finds.                *)
(***************************************************************************)

\* bounds
NumBalReqs == 3
MaxInitRemaining == 2
MaxQuantity == 1
MaxMonth == 1

BalReqs == 1..NumBalReqs

\* a nullable integer column: NULL, or the value
NULL == <<>>
Some(n) == <<n>>
IsNull(x) == x = NULL
Val(x) == x[1]

PER_MISSIONS == "per_missions"
PER_VEHICLES_PER_MONTH == "per_vehicles_per_month"
BalTypes == {PER_MISSIONS, PER_VEHICLES_PER_MONTH}

NoBal == [type |-> "none", total |-> NULL, remaining |-> NULL,
          monthlyLimit |-> NULL, periodStart |-> NULL]

\* getOrInit: the row it inserts
DefaultBal == [type |-> PER_MISSIONS, total |-> NULL, remaining |-> NULL,
               monthlyLimit |-> NULL, periodStart |-> NULL]

NoOp == [kind |-> "none", type |-> "none", quantity |-> 0, admin |-> FALSE]

\* consume(action) and purchaseForCurrentCompany({type, quantity}), with the caller's admin bit
BalOps ==
  {[kind |-> k, type |-> "none", quantity |-> 0, admin |-> FALSE] :
      k \in {"mission_create", "vehicle_create"}}
  \cup {[kind |-> "purchase", type |-> ty, quantity |-> q, admin |-> a] :
      ty \in BalTypes, q \in 0..MaxQuantity, a \in BOOLEAN}


\* the row version a statement of request t sees
Visible(t) == IF bowner = t THEN bdirty ELSE bal

\* the row is free for a write of t (no other transaction holds it)
CanWrite(t) == bowner \in {0, t}

\* a check made on the row the handler read earlier
UpdateTargetStale(t) == bcur[t]

\* the row version an UPDATE of t evaluates its WHERE and SET clauses on
UpdateTarget(t) == Visible(t)

\* WHERE clause of consumeCounter
CounterMatchesNoGuard(row, type) ==
  /\ row # NoBal
  /\ row.type = type

CounterMatches(row, type) ==
  /\ row # NoBal
  /\ row.type = type
  /\ (IsNull(row.remaining) \/ Val(row.remaining) > 0)

\* SET clause of consumeCounter
CounterSet(row) ==
  [row EXCEPT !.remaining = IF IsNull(row.remaining) THEN NULL
                            ELSE Some(Val(row.remaining) - 1)]

\* cb."periodStart" IS NULL OR cb."periodStart" < month_start
PeriodIsOld(row) == IsNull(row.periodStart) \/ Val(row.periodStart) < month

\* a consumeMonthly that tests neither the limit nor what remains
MonthlyMatchesNoGuard(row) ==
  /\ row # NoBal
  /\ row.type = PER_VEHICLES_PER_MONTH

\* WHERE clause of consumeMonthly
MonthlyMatches(row) ==
  /\ row # NoBal
  /\ row.type = PER_VEHICLES_PER_MONTH
  /\ \/ IsNull(row.monthlyLimit)
     \/ (PeriodIsOld(row) /\ Val(row.monthlyLimit) > 0)
     \/ (~IsNull(row.periodStart) /\ Val(row.periodStart) >= month
         /\ ~IsNull(row.remaining) /\ Val(row.remaining) > 0)

\* SET clause of consumeMonthly
MonthlySet(row) ==
  IF IsNull(row.monthlyLimit) THEN row
  ELSE [row EXCEPT
          !.periodStart = IF PeriodIsOld(row) THEN Some(month) ELSE row.periodStart,
          !.total = row.monthlyLimit,
          !.remaining = IF PeriodIsOld(row) THEN Some(Val(row.monthlyLimit) - 1)
                        ELSE Some(Val(row.remaining) - 1)]

\* current.x ?? 0
OrZero(x) == IF IsNull(x) THEN 0 ELSE Val(x)

\* purchaseForCurrentCompany: the row its UPDATE writes
PurchaseSet(current, input) ==
  IF input.type = PER_VEHICLES_PER_MONTH
  THEN [type |-> input.type, total |-> Some(input.quantity),
        remaining |-> Some(input.quantity), monthlyLimit |-> Some(input.quantity),
        periodStart |-> Some(month)]
  ELSE LET sameType == current.type = input.type IN
       [type |-> input.type,
        total |-> Some(IF sameType THEN OrZero(current.total) + input.quantity
                       ELSE input.quantity),
        remaining |-> Some(IF sameType THEN OrZero(current.remaining) + input.quantity
                           ELSE input.quantity),
        monthlyLimit |-> NULL,
        periodStart |-> NULL]

\* the company_balance_purchase row: the post-state snapshot
PurchaseRow(input, updated) ==
  [type |-> input.type, quantity |-> input.quantity,
   totalAfter |-> updated.total, remainingAfter |-> updated.remaining,
   monthlyLimitAfter |-> updated.monthlyLimit, periodStartAfter |-> updated.periodStart]

\* a shouldConsume that does not look at the balance type
shouldConsumeAnyType(action, current) ==
  action \in {"mission_create", "vehicle_create"}

\* consume: shouldConsume
shouldConsume(action, current) ==
  \/ (action = "mission_create" /\ current.type = PER_MISSIONS)
  \/ (action = "vehicle_create" /\ current.type = PER_VEHICLES_PER_MONTH)

\* where the handler continues once getOrInit has returned `current`
AfterGetOrInit(op, current) ==
  IF op.kind = "purchase" THEN "purchaseUpdate"
  ELSE IF ~shouldConsume(op.kind, current) THEN "finish"
  ELSE IF current.type = PER_VEHICLES_PER_MONTH THEN "consumeMonthly"
  ELSE "consumeCounter"

InitBalRows ==
  {NoBal} \cup
  {[type |-> PER_MISSIONS, total |-> Some(m), remaining |-> Some(m),
    monthlyLimit |-> NULL, periodStart |-> NULL] : m \in 0..MaxInitRemaining}

InitBal ==
  /\ bal \in InitBalRows
  /\ binit = bal
  /\ bowner = 0
  /\ bdirty = NoBal
  /\ purchases = <<>>
  /\ bpend = [t \in BalReqs |-> <<>>]
  /\ month = 0
  /\ bpc = [t \in BalReqs |-> "idle"]
  /\ bop = [t \in BalReqs |-> NoOp]
  /\ bcur = [t \in BalReqs |-> NoBal]
  /\ bres = [t \in BalReqs |-> "none"]

\* the request's transaction ends without effect: ROLLBACK, release
BalAbort(t, outcome) ==
  /\ bpc' = [bpc EXCEPT ![t] = "done"]
  /\ bres' = [bres EXCEPT ![t] = outcome]
  /\ bpend' = [bpend EXCEPT ![t] = <<>>]
  /\ bowner' = IF bowner = t THEN 0 ELSE bowner
  /\ bdirty' = IF bowner = t THEN NoBal ELSE bdirty

\* the handler starts: requireAdmin (purchase), then the SELECT of getOrInit
BalStart(t, op) ==
  /\ bpc[t] = "idle"
  /\ bop' = [bop EXCEPT ![t] = op]
  /\ IF op.kind = "purchase" /\ ~op.admin
     THEN /\ BalAbort(t, "Forbidden")
          /\ UNCHANGED bcur
     ELSE LET existing == Visible(t) IN
          /\ bcur' = [bcur EXCEPT ![t] = existing]
          /\ bpc' = [bpc EXCEPT ![t] =
                       IF existing # NoBal THEN AfterGetOrInit(op, existing) ELSE "insert"]
          /\ UNCHANGED <<bres, bpend, bowner, bdirty>>
  /\ UNCHANGED <<bal, binit, purchases, month>>
  /\ UNCHANGED otherThanBal

\* getOrInit: the INSERT of the default row.  It waits for an uncommitted
\* INSERT of another request; a primary-key violation aborts the transaction,
\* so the SELECT of the catch block fails too and the request errors.
BalInsert(t) ==
  /\ bpc[t] = "insert"
  /\ CanWrite(t)
  /\ IF bal # NoBal
     THEN /\ BalAbort(t, "error")
          /\ UNCHANGED bcur
     ELSE /\ bowner' = t
          /\ bdirty' = DefaultBal
          /\ bcur' = [bcur EXCEPT ![t] = DefaultBal]
          /\ bpc' = [bpc EXCEPT ![t] = AfterGetOrInit(bop[t], DefaultBal)]
          /\ UNCHANGED <<bres, bpend>>
  /\ UNCHANGED <<bal, binit, purchases, month, bop>>
  /\ UNCHANGED otherThanBal

\* consumeCounter: the conditional UPDATE; no row updated -> Conflict BALANCE_EXCEEDED
consumeCounter(t) ==
  /\ bpc[t] = "consumeCounter"
  /\ CanWrite(t)
  /\ IF CounterMatches(UpdateTarget(t), bcur[t].type)
     THEN /\ bowner' = t
          /\ bdirty' = CounterSet(UpdateTarget(t))
          /\ bpc' = [bpc EXCEPT ![t] = "finish"]
          /\ UNCHANGED <<bres, bpend>>
     ELSE BalAbort(t, "BALANCE_EXCEEDED")
  /\ UNCHANGED <<bal, binit, purchases, month, bop, bcur>>
  /\ UNCHANGED otherThanBal

\* consumeMonthly: the conditional UPDATE with the period rollover
consumeMonthly(t) ==
  /\ bpc[t] = "consumeMonthly"
  /\ CanWrite(t)
  /\ IF MonthlyMatches(UpdateTarget(t))
     THEN /\ bowner' = t
          /\ bdirty' = MonthlySet(UpdateTarget(t))
          /\ bpc' = [bpc EXCEPT ![t] = "finish"]
          /\ UNCHANGED <<bres, bpend>>
     ELSE BalAbort(t, "BALANCE_EXCEEDED")
  /\ UNCHANGED <<bal, binit, purchases, month, bop, bcur>>
  /\ UNCHANGED otherThanBal

\* purchaseForCurrentCompany: UPDATE ... WHERE companyId RETURNING *
PurchaseUpdate(t) ==
  /\ bpc[t] = "purchaseUpdate"
  /\ CanWrite(t)
  /\ bowner' = t
  /\ bdirty' = PurchaseSet(bcur[t], bop[t])
  /\ bpc' = [bpc EXCEPT ![t] = "purchaseInsert"]
  /\ UNCHANGED <<bal, binit, purchases, bpend, month, bop, bcur, bres>>
  /\ UNCHANGED otherThanBal

\* purchaseForCurrentCompany: INSERT INTO company_balance_purchase
PurchaseInsert(t) ==
  /\ bpc[t] = "purchaseInsert"
  /\ bpend' = [bpend EXCEPT ![t] = Append(@, PurchaseRow(bop[t], bdirty))]
  /\ bpc' = [bpc EXCEPT ![t] = "finish"]
  /\ UNCHANGED <<bal, binit, bowner, bdirty, purchases, month, bop, bcur, bres>>
  /\ UNCHANGED otherThanBal

\* the handler completes and the interceptor commits
BalCommit(t) ==
  /\ bpc[t] = "finish"
  /\ bal' = IF bowner = t THEN bdirty ELSE bal
  /\ bowner' = IF bowner = t THEN 0 ELSE bowner
  /\ bdirty' = IF bowner = t THEN NoBal ELSE bdirty
  /\ purchases' = purchases \o bpend[t]
  /\ bpend' = [bpend EXCEPT ![t] = <<>>]
  /\ bpc' = [bpc EXCEPT ![t] = "done"]
  /\ bres' = [bres EXCEPT ![t] = "ok"]
  /\ UNCHANGED <<binit, month, bop, bcur>>
  /\ UNCHANGED otherThanBal

\* a balance service whose statements commit on their own: what the request
\* wrote stays when the request fails
AfterRequestErrorKept(t) == IF bowner = t THEN bdirty ELSE bal

\* the committed row after the ROLLBACK of request t: what t wrote is gone
AfterRequestError(t) == bal

\* the rest of the handler (saving the mission or vehicle) or the COMMIT fails:
\* the interceptor rolls back
BalFail(t) ==
  /\ bpc[t] = "finish"
  /\ BalAbort(t, "error")
  /\ bal' = AfterRequestError(t)
  /\ UNCHANGED <<binit, purchases, month, bop, bcur>>
  /\ UNCHANGED otherThanBal

TickMonth ==
  /\ month < MaxMonth
  /\ month' = month + 1
  /\ UNCHANGED <<bal, binit, bowner, bdirty, purchases, bpend, bpc, bop, bcur, bres>>
  /\ UNCHANGED otherThanBal

NextBal ==
  \/ \E t \in BalReqs, op \in BalOps : BalStart(t, op)
  \/ \E t \in BalReqs : BalInsert(t)
  \/ \E t \in BalReqs : consumeCounter(t)
  \/ \E t \in BalReqs : consumeMonthly(t)
  \/ \E t \in BalReqs : PurchaseUpdate(t)
  \/ \E t \in BalReqs : PurchaseInsert(t)
  \/ \E t \in BalReqs : BalCommit(t)
  \/ \E t \in BalReqs : BalFail(t)
  \/ TickMonth

(***************************************************************************)
(* Part 3. The request pipeline (RequestContextInterceptor): every         *)
(* authenticated request runs in one transaction on one pooled connection, *)
(* under the restricted role and the session variables the row-level       *)
(* security policies read.  A statement that ends a transaction ends it    *)
(* on the server whether or not the client sees it fail.                   *)
(***************************************************************************)

\* bounds
NumReqs == 2
NumConns == 2
MaxAdminOps == 1

Reqs == 1..NumReqs
Conns == 1..NumConns

Companies == {"A", "B"}
\* a company id that is absent (undefined, null or '')
NoCompany == ""
MaybeCompany == Companies \cup {NoCompany}
ActorTypes == {"web", "mobile"}
\* the id of the actor every token is issued for
ActorId == 1

LOGIN_ROLE == "login"
RLS_DB_ROLE == "rouptimize_app_rls"
\* a session variable that was never set
Unset == "unset"

\* request.user: the claims JwtStrategy takes from a signed token, or no user
NoUser == [userId |-> NoId, companyId |-> NoCompany, isSuperAdmin |-> FALSE]
JwtUsers ==
  [userId : {ActorId}, companyId : MaybeCompany, isSuperAdmin : BOOLEAN]

\* the row of the actor in "user" or "mobile_user"
NoRow ==
  [found |-> FALSE, deleted |-> FALSE, companyId |-> NoCompany, isSuperAdmin |-> FALSE]
ActorRows(type) ==
  [found : {TRUE}, deleted : BOOLEAN,
   companyId : IF type = "mobile" THEN Companies ELSE MaybeCompany,
   isSuperAdmin : BOOLEAN]

\* role and session variables of a connection
DefaultSettings == [role |-> LOGIN_ROLE, sa |-> Unset, co |-> Unset]
NobodySet == [role |-> 0, sa |-> 0, co |-> 0]
FreshConn ==
  [holder |-> 0, intxn |-> FALSE,
   loc |-> DefaultSettings, by |-> NobodySet,
   sess |-> DefaultSettings, sby |-> NobodySet]

\* SET without LOCAL: the value belongs to the session
SetSession(c, field, value, r) ==
  [c EXCEPT !.loc[field] = value, !.by[field] = r,
            !.sess[field] = value, !.sby[field] = r]

\* SET LOCAL / set_config(.., true): in force until the transaction ends;
\* without a transaction it has no lasting effect
SetLocal(c, field, value, r) ==
  IF c.intxn THEN [c EXCEPT !.loc[field] = value, !.by[field] = r] ELSE c

\* a setupTransaction that leaves the role of the connection as it is
SetLocalRoleSkipped(c, r) == c

\* setupTransaction: SET LOCAL ROLE <RLS_DB_ROLE>
SetLocalRole(c, r) == SetLocal(c, "role", RLS_DB_ROLE, r)

\* COMMIT or ROLLBACK: transaction-local settings fall back to the session's
EndTxn(c) == [c EXCEPT !.intxn = FALSE, !.loc = c.sess, !.by = c.sby]

\* the tenant_isolation_company policy, for a row of company co on connection c;
\* the login role owns the tables and is not subject to the policies
Allowed(c, co) ==
  \/ c.loc.role # RLS_DB_ROLE
  \/ c.loc.sa = "true"
  \/ (c.loc.co \in Companies /\ co = c.loc.co)

\* WHERE id = $1 AND "deletedAt" IS NULL, ignoring deletedAt
RowFoundIgnoringDeleted(row) == row.found

\* WHERE id = $1 AND "deletedAt" IS NULL
RowFound(row) == row.found /\ ~row.deleted

\* the request context built from request.user
ContextOf(user) ==
  [userId |-> user.userId, companyId |-> user.companyId,
   isSuperAdmin |-> user.isSuperAdmin]

\* a refresh that keeps the company of the token
RefreshedKeepCompany(data, row) ==
  [data EXCEPT !.isSuperAdmin = row.isSuperAdmin]

\* a refresh that keeps the superadmin flag of the token
RefreshedKeepSuperAdmin(data, row) ==
  [data EXCEPT !.companyId = row.companyId]

\* refreshUserContext: the stored values replace the claims
Refreshed(data, row) ==
  [data EXCEPT !.companyId = row.companyId, !.isSuperAdmin = row.isSuperAdmin]

needsTransaction(data) == data.isSuperAdmin \/ data.companyId # NoCompany

\* a setRlsContext without its company-scope test
RlsThrowsNever(data) == FALSE

\* setRlsContext throws before its first statement
RlsThrows(data) == ~data.isSuperAdmin /\ data.companyId = NoCompany

\* the values setRlsContext binds
RlsSuperadmin(data) == IF data.isSuperAdmin THEN "true" ELSE "false"
RlsCompany(data) == IF data.isSuperAdmin THEN "" ELSE data.companyId

\* switchMap: the value of setupTransaction starts the handler, unless the
\* response stream was unsubscribed before: then nothing is started, and nothing
\* ends the transaction or releases the client
AfterSetup(cancelled) == IF cancelled THEN "abandoned" ELSE "handler"

\* commit() without its finally block
AfterCommitNoFinally(ok) == IF ok THEN "release" ELSE "done"

\* commit(): try { COMMIT } finally { release }
AfterCommit(ok) == "release"

\* rollback() without its try / catch
AfterRollbackNoCatch(ok) == IF ok THEN "release" ELSE "done"

\* rollback(): try { ROLLBACK } catch {}, then release
AfterRollback(ok) == "release"

ReqOutcomes == {"none", "ok", "error", "Unauthorized", "hung"}

InitReq ==
  /\ atype \in ActorTypes
  /\ actor \in {row \in ActorRows(atype) : ~row.deleted} \cup {NoRow}
  /\ adminOps = 0
  /\ conns = [k \in Conns |-> FreshConn]
  /\ rpc = [r \in Reqs |-> "idle"]
  /\ ruser = [r \in Reqs |-> NoUser]
  /\ rdata = [r \in Reqs |-> ContextOf(NoUser)]
  /\ rrow = [r \in Reqs |-> <<>>]
  /\ rconn = [r \in Reqs |-> 0]
  /\ rran = [r \in Reqs |-> FALSE]
  /\ rlast = [r \in Reqs |-> NoCompany]
  /\ rerr = [r \in Reqs |-> "none"]
  /\ rres = [r \in Reqs |-> "none"]
  /\ ncommit = [r \in Reqs |-> 0]
  /\ nrollback = [r \in Reqs |-> 0]
  /\ nrelease = [r \in Reqs |-> 0]

OnConn(r, c) == conns' = [conns EXCEPT ![rconn[r]] = c]
Conn(r) == conns[rconn[r]]

\* the request is answered
Answer(r, outcome) ==
  /\ rpc' = [rpc EXCEPT ![r] = "done"]
  /\ rres' = [rres EXCEPT ![r] = outcome]

\* a statement of setupTransaction failed: go to its catch block
SetupThrows(r, err) ==
  /\ rpc' = [rpc EXCEPT ![r] = "setupRollback"]
  /\ rerr' = [rerr EXCEPT ![r] = err]

\* intercept: build the context, reject a user without company scope, choose the path
intercept(r, user) ==
  /\ rpc[r] = "idle"
  /\ IF user.userId # NoId /\ ~user.isSuperAdmin /\ user.companyId = NoCompany
     THEN /\ Answer(r, "Unauthorized")
          /\ UNCHANGED <<ruser, rdata>>
     ELSE /\ ruser' = [ruser EXCEPT ![r] = user]
          /\ rdata' = [rdata EXCEPT ![r] = ContextOf(user)]
          /\ rpc' = [rpc EXCEPT ![r] =
               IF needsTransaction(ContextOf(user)) THEN "connect" ELSE "noTransaction"]
          /\ UNCHANGED rres
  /\ UNCHANGED <<atype, actor, adminOps, conns, rrow, rconn, rran, rlast, rerr,
                 ncommit, nrollback, nrelease>>
  /\ UNCHANGED otherThanReq

\* runWithoutTransaction: the handler works on the pool-level handle
runWithoutTransaction(r, co, ok) ==
  /\ rpc[r] = "noTransaction"
  /\ \E k \in Conns : conns[k].holder = 0 /\ Allowed(conns[k], co)
  /\ rran' = [rran EXCEPT ![r] = TRUE]
  /\ Answer(r, IF ok THEN "ok" ELSE "error")
  /\ UNCHANGED <<atype, actor, adminOps, conns, ruser, rdata, rrow, rconn, rlast, rerr,
                 ncommit, nrollback, nrelease>>
  /\ UNCHANGED otherThanReq

\* setupTransaction: pool.connect()
Connect(r, k) ==
  /\ rpc[r] = "connect"
  /\ conns[k].holder = 0
  /\ conns' = [conns EXCEPT ![k].holder = r]
  /\ rconn' = [rconn EXCEPT ![r] = k]
  /\ rpc' = [rpc EXCEPT ![r] = "begin"]
  /\ UNCHANGED <<atype, actor, adminOps, ruser, rdata, rrow, rran, rlast, rerr, rres,
                 ncommit, nrollback, nrelease>>
  /\ UNCHANGED otherThanReq

\* setupTransaction: pool.connect() rejects (outside the try block)
ConnectFail(r) ==
  /\ rpc[r] = "connect"
  /\ Answer(r, "error")
  /\ ruser' = [ruser EXCEPT ![r] = NoUser]
  /\ rdata' = [rdata EXCEPT ![r] = ContextOf(NoUser)]
  /\ UNCHANGED <<atype, actor, adminOps, conns, rrow, rconn, rran, rlast,
                 rerr, ncommit, nrollback, nrelease>>
  /\ UNCHANGED otherThanReq

\* setupTransaction: BEGIN
Begin(r, ok) ==
  /\ rpc[r] = "begin"
  /\ IF ok
     THEN /\ OnConn(r, [Conn(r) EXCEPT !.intxn = TRUE])
          /\ rpc' = [rpc EXCEPT ![r] = "setRole"]
          /\ UNCHANGED rerr
     ELSE /\ SetupThrows(r, "error")
          /\ UNCHANGED conns
  /\ UNCHANGED <<atype, actor, adminOps, ruser, rdata, rrow, rconn, rran, rlast, rres,
                 ncommit, nrollback, nrelease>>
  /\ UNCHANGED otherThanReq

\* setupTransaction: SET LOCAL ROLE; without a userId the claims are kept
SetRole(r, ok) ==
  /\ rpc[r] = "setRole"
  /\ IF ok
     THEN /\ OnConn(r, SetLocalRole(Conn(r), r))
          /\ IF rdata[r].userId # NoId
             THEN rpc' = [rpc EXCEPT ![r] = "refreshSuperadmin"] /\ UNCHANGED rerr
             ELSE IF RlsThrows(rdata[r])
                  THEN SetupThrows(r, "Unauthorized")
                  ELSE rpc' = [rpc EXCEPT ![r] = "rlsSuperadmin"] /\ UNCHANGED rerr
     ELSE /\ SetupThrows(r, "error")
          /\ UNCHANGED conns
  /\ UNCHANGED <<atype, actor, adminOps, ruser, rdata, rrow, rconn, rran, rlast, rres,
                 ncommit, nrollback, nrelease>>
  /\ UNCHANGED otherThanReq

\* refreshUserContext: SET LOCAL app.is_superadmin = 'true'
RefreshSetSuperadmin(r, ok) ==
  /\ rpc[r] = "refreshSuperadmin"
  /\ IF ok
     THEN /\ OnConn(r, SetLocal(Conn(r), "sa", "true", r))
          /\ rpc' = [rpc EXCEPT ![r] = "refreshCompany"]
          /\ UNCHANGED rerr
     ELSE /\ SetupThrows(r, "error")
          /\ UNCHANGED conns
  /\ UNCHANGED <<atype, actor, adminOps, ruser, rdata, rrow, rconn, rran, rlast, rres,
                 ncommit, nrollback, nrelease>>
  /\ UNCHANGED otherThanReq

\* refreshUserContext: set_config('app.current_company_id', '', true)
RefreshSetCompany(r, ok) ==
  /\ rpc[r] = "refreshCompany"
  /\ IF ok
     THEN /\ OnConn(r, SetLocal(Conn(r), "co", "", r))
          /\ rpc' = [rpc EXCEPT ![r] = "refreshSelect"]
          /\ UNCHANGED rerr
     ELSE /\ SetupThrows(r, "error")
          /\ UNCHANGED conns
  /\ UNCHANGED <<atype, actor, adminOps, ruser, rdata, rrow, rconn, rran, rlast, rres,
                 ncommit, nrollback, nrelease>>
  /\ UNCHANGED otherThanReq

\* refreshUserContext: SELECT the actor row; no row throws Unauthorized;
\* then the guard at the head of setRlsContext
refreshUserContext(r, ok) ==
  /\ rpc[r] = "refreshSelect"
  /\ IF ok
     THEN /\ rrow' = [rrow EXCEPT ![r] = <<actor>>]
          /\ IF RowFound(actor) /\ Allowed(Conn(r), actor.companyId)
             THEN /\ rdata' = [rdata EXCEPT ![r] = Refreshed(rdata[r], actor)]
                  /\ IF RlsThrows(Refreshed(rdata[r], actor))
                     THEN SetupThrows(r, "Unauthorized")
                     ELSE rpc' = [rpc EXCEPT ![r] = "rlsSuperadmin"] /\ UNCHANGED rerr
             ELSE /\ SetupThrows(r, "Unauthorized")
                  /\ UNCHANGED rdata
     ELSE /\ SetupThrows(r, "error")
          /\ UNCHANGED <<rrow, rdata>>
  /\ UNCHANGED <<atype, actor, adminOps, conns, ruser, rconn, rran, rlast, rres,
                 ncommit, nrollback, nrelease>>
  /\ UNCHANGED otherThanReq

\* setRlsContext: SET LOCAL app.is_superadmin
RlsSetSuperadmin(r, ok) ==
  /\ rpc[r] = "rlsSuperadmin"
  /\ IF ok
     THEN /\ OnConn(r, SetLocal(Conn(r), "sa", RlsSuperadmin(rdata[r]), r))
          /\ rpc' = [rpc EXCEPT ![r] = "rlsCompany"]
          /\ UNCHANGED rerr
     ELSE /\ SetupThrows(r, "error")
          /\ UNCHANGED conns
  /\ UNCHANGED <<atype, actor, adminOps, ruser, rdata, rrow, rconn, rran, rlast, rres,
                 ncommit, nrollback, nrelease>>
  /\ UNCHANGED otherThanReq

\* setRlsContext: set_config('app.current_company_id', .., true); the handler starts
RlsSetCompany(r, ok) ==
  /\ rpc[r] = "rlsCompany"
  /\ IF ok
     THEN /\ OnConn(r, SetLocal(Conn(r), "co", RlsCompany(rdata[r]), r))
          /\ rpc' = [rpc EXCEPT ![r] = AfterSetup(rcancel[r] # "no")]
          /\ rran' = [rran EXCEPT ![r] = rcancel[r] = "no"]
          /\ UNCHANGED rerr
     ELSE /\ SetupThrows(r, "error")
          /\ UNCHANGED <<conns, rran>>
  /\ UNCHANGED <<atype, actor, adminOps, ruser, rdata, rrow, rconn, rlast, rres,
                 ncommit, nrollback, nrelease>>
  /\ UNCHANGED otherThanReq

\* the handler reads or writes a row of company co through the request's connection
HandlerQuery(r, co) ==
  /\ rpc[r] = "handler"
  /\ Allowed(Conn(r), co)
  /\ rlast' = [rlast EXCEPT ![r] = co]
  /\ UNCHANGED <<atype, actor, adminOps, conns, rpc, ruser, rdata, rrow, rconn, rran,
                 rerr, rres, ncommit, nrollback, nrelease>>
  /\ UNCHANGED otherThanReq

\* runWithTransaction: the handler's stream completes
HandlerComplete(r) ==
  /\ rpc[r] = "handler"
  /\ rpc' = [rpc EXCEPT ![r] = "commit"]
  /\ rlast' = [rlast EXCEPT ![r] = NoCompany]
  /\ UNCHANGED <<atype, actor, adminOps, conns, ruser, rdata, rrow, rconn, rran,
                 rerr, rres, ncommit, nrollback, nrelease>>
  /\ UNCHANGED otherThanReq

\* runWithTransaction: the handler's stream fails
HandlerError(r) ==
  /\ rpc[r] = "handler"
  /\ rpc' = [rpc EXCEPT ![r] = "rollback"]
  /\ rerr' = [rerr EXCEPT ![r] = "error"]
  /\ rlast' = [rlast EXCEPT ![r] = NoCompany]
  /\ UNCHANGED <<atype, actor, adminOps, conns, ruser, rdata, rrow, rconn, rran,
                 rres, ncommit, nrollback, nrelease>>
  /\ UNCHANGED otherThanReq

\* commit: COMMIT; when it throws the response is never completed
commit(r, ok) ==
  /\ rpc[r] = "commit"
  /\ OnConn(r, EndTxn(Conn(r)))
  /\ ncommit' = [ncommit EXCEPT ![r] = @ + 1]
  /\ rerr' = [rerr EXCEPT ![r] = IF ok THEN "ok" ELSE "hung"]
  /\ IF AfterCommit(ok) = "done"
     THEN Answer(r, IF ok THEN "ok" ELSE "hung")
     ELSE rpc' = [rpc EXCEPT ![r] = AfterCommit(ok)] /\ UNCHANGED rres
  /\ UNCHANGED <<atype, actor, adminOps, ruser, rdata, rrow, rconn, rran, rlast,
                 nrollback, nrelease>>
  /\ UNCHANGED otherThanReq

\* rollback: try { ROLLBACK } catch {}
rollback(r, ok) ==
  /\ rpc[r] = "rollback"
  /\ OnConn(r, EndTxn(Conn(r)))
  /\ nrollback' = [nrollback EXCEPT ![r] = @ + 1]
  /\ IF AfterRollback(ok) = "done"
     THEN Answer(r, "hung")
     ELSE rpc' = [rpc EXCEPT ![r] = AfterRollback(ok)] /\ UNCHANGED rres
  /\ UNCHANGED <<atype, actor, adminOps, ruser, rdata, rrow, rconn, rran, rlast, rerr,
                 ncommit, nrelease>>
  /\ UNCHANGED otherThanReq

\* setupTransaction, catch block: try { ROLLBACK } catch { log }
SetupRollback(r, ok) ==
  /\ rpc[r] = "setupRollback"
  /\ OnConn(r, EndTxn(Conn(r)))
  /\ nrollback' = [nrollback EXCEPT ![r] = @ + 1]
  /\ rpc' = [rpc EXCEPT ![r] = "release"]
  /\ UNCHANGED <<atype, actor, adminOps, ruser, rdata, rrow, rconn, rran, rlast, rerr,
                 rres, ncommit, nrelease>>
  /\ UNCHANGED otherThanReq

\* client.release(), then the request gets its answer
Release(r) ==
  /\ rpc[r] = "release"
  /\ OnConn(r, [Conn(r) EXCEPT !.holder = 0])
  /\ nrelease' = [nrelease EXCEPT ![r] = @ + 1]
  /\ Answer(r, rerr[r])
  /\ ruser' = [ruser EXCEPT ![r] = NoUser]
  /\ rdata' = [rdata EXCEPT ![r] = ContextOf(NoUser)]
  /\ rerr' = [rerr EXCEPT ![r] = "none"]
  /\ UNCHANGED <<atype, actor, adminOps, rrow, rconn, rran, rlast, ncommit, nrollback>>
  /\ UNCHANGED otherThanReq

\* the positions of setupTransaction and of the teardown
SetupPositions ==
  {"connect", "begin", "setRole", "refreshSuperadmin", "refreshCompany", "refreshSelect",
   "rlsSuperadmin", "rlsCompany", "setupRollback"}

InitCancel == rcancel = [r \in Reqs |-> "no"]

\* the client disconnects: the response stream of the request is unsubscribed.
\* Neither Observable of runWithTransaction returns a teardown, so nothing else
\* happens at this point.
Cancel(r) ==
  /\ rcancel[r] = "no"
  /\ rpc[r] \in SetupPositions \cup {"handler", "commit", "rollback", "release"}
  /\ rcancel' = [rcancel EXCEPT ![r] =
       IF rpc[r] = "handler" THEN "handler"
       ELSE IF rpc[r] \in SetupPositions THEN "setup" ELSE "teardown"]
  /\ UNCHANGED otherThanCancel

\* what one administrative change can make of the actor's row: a soft delete,
\* a move to another company, a change of the superadmin flag
AdminChanges(row) ==
  {[row EXCEPT !.deleted = TRUE]}
  \cup {[row EXCEPT !.companyId = co] : co \in Companies}
  \cup {[row EXCEPT !.isSuperAdmin = ~row.isSuperAdmin]}

\* an administrator changes the actor's row, in a transaction of its own
AdminUpdate(row) ==
  /\ adminOps < MaxAdminOps
  /\ actor.found /\ ~actor.deleted
  /\ row \in AdminChanges(actor)
  /\ row # actor
  /\ actor' = row
  /\ adminOps' = adminOps + 1
  /\ UNCHANGED <<atype, conns, rpc, ruser, rdata, rrow, rconn, rran, rlast, rerr, rres,
                 ncommit, nrollback, nrelease>>
  /\ UNCHANGED otherThanReq

NextReq ==
  \/ \E r \in Reqs : \E user \in JwtUsers \cup {NoUser} : intercept(r, user)
  \/ \E r \in Reqs : \E co \in Companies : \E ok \in BOOLEAN : runWithoutTransaction(r, co, ok)
  \/ \E r \in Reqs : \E k \in Conns : Connect(r, k)
  \/ \E r \in Reqs : ConnectFail(r)
  \/ \E r \in Reqs : \E ok \in BOOLEAN : Begin(r, ok)
  \/ \E r \in Reqs : \E ok \in BOOLEAN : SetRole(r, ok)
  \/ \E r \in Reqs : \E ok \in BOOLEAN : RefreshSetSuperadmin(r, ok)
  \/ \E r \in Reqs : \E ok \in BOOLEAN : RefreshSetCompany(r, ok)
  \/ \E r \in Reqs : \E ok \in BOOLEAN : refreshUserContext(r, ok)
  \/ \E r \in Reqs : \E ok \in BOOLEAN : RlsSetSuperadmin(r, ok)
  \/ \E r \in Reqs : \E ok \in BOOLEAN : RlsSetCompany(r, ok)
  \/ \E r \in Reqs : \E co \in Companies : HandlerQuery(r, co)
  \/ \E r \in Reqs : HandlerComplete(r)
  \/ \E r \in Reqs : HandlerError(r)
  \/ \E r \in Reqs : \E ok \in BOOLEAN : commit(r, ok)
  \/ \E r \in Reqs : \E ok \in BOOLEAN : rollback(r, ok)
  \/ \E r \in Reqs : \E ok \in BOOLEAN : SetupRollback(r, ok)
  \/ \E r \in Reqs : Release(r)
  \/ \E row \in ActorRows("web") : AdminUpdate(row)

(***************************************************************************)
(* Part 4. Registration with an invite code                                *)
(* (MobileUserService.registerWithInviteCode): a transaction of its own on *)
(* a pooled connection, under the login role.  Statements see the          *)
(* committed rows and the transaction's own writes (READ COMMITTED); an    *)
(* UPDATE waits for the row lock, an INSERT for an uncommitted row with    *)
(* the same unique key.                                                    *)
(***************************************************************************)

\* bounds
NumRegs == 2
MaxInvNow == 2
InviteExpiry == 1

Regs == 1..NumRegs
InviteCodes == {"code", "other"}
\* the code of the one invite in the table
TheCode == "code"
RawUsernames == {"u1", "U1 ", "u2"}

\* username.trim().toLowerCase()
normalizeUsername(u) == IF u = "U1 " THEN "u1" ELSE u

RegDtos == [inviteCode : InviteCodes, username : RawUsernames]
NoDto == [inviteCode |-> "", username |-> ""]

\* no mobile_user row
NoMobileUser == [id |-> NoId, username |-> "", deleted |-> FALSE, by |-> 0]
\* live rows of the invite's company with this username
LiveByUsername(rows, username) ==
  {i \in DOMAIN rows : rows[i].username = username /\ ~rows[i].deleted}

\* rows that hold the key (companyId, username) in mobile_user_company_username_uq
KeyHolders(rows, username) == {i \in DOMAIN rows : rows[i].username = username}

\* findValidInviteByCode: code = $1 AND "usedAt" IS NULL
findValidInviteByCode(row, code) == row.code = code /\ IsNull(row.usedAt)

\* invite.expiresAt && new Date(invite.expiresAt) < new Date()
InviteExpired(row, time) == ~IsNull(row.expiresAt) /\ Val(row.expiresAt) < time

\* markInviteAsUsed: UPDATE driver_invite SET usedAt, usedByMobileUserId WHERE id = $1
markInviteAsUsed(row, time, mobileUserId) ==
  [row EXCEPT !.usedAt = Some(time), !.usedByMobileUserId = mobileUserId]

\* the mobile_user table after a transaction that did not roll back its insert
UsersAfterRollbackKept(rows, created) ==
  IF created = NoMobileUser THEN rows ELSE Append(rows, created)

\* the mobile_user table after ROLLBACK
UsersAfterRollback(rows, created) == rows

InitInv ==
  /\ invite \in [code : {TheCode}, usedAt : {NULL}, usedByMobileUserId : {NoId},
                 expiresAt : {NULL, Some(InviteExpiry)}]
  /\ musers \in {<<>>} \cup
       {<<[id |-> 1, username |-> "u1", deleted |-> del, by |-> 0]>> : del \in BOOLEAN}
  /\ ilock = 0
  /\ inow = 0
  /\ ipc = [p \in Regs |-> "idle"]
  /\ idto = [p \in Regs |-> NoDto]
  /\ icreated = [p \in Regs |-> NoMobileUser]
  /\ imark = [p \in Regs |-> <<>>]
  /\ ierr = [p \in Regs |-> "none"]
  /\ ires = [p \in Regs |-> "none"]
  /\ ilate = [p \in Regs |-> FALSE]
  /\ iundone = [p \in Regs |-> 0]
  /\ ifault = [p \in Regs |-> FALSE]

\* the code threw: go to the catch block
RegThrows(p, err) ==
  /\ ipc' = [ipc EXCEPT ![p] = "rollback"]
  /\ ierr' = [ierr EXCEPT ![p] = err]

\* a statement of the call has failed for a reason of the database's
Fault(p, ok) == ifault' = [ifault EXCEPT ![p] = @ \/ ~ok]

\* the transaction ends without a commit: its writes and its lock are gone
Undo(p) ==
  /\ musers' = UsersAfterRollback(musers, icreated[p])
  /\ iundone' = [iundone EXCEPT ![p] =
       @ + (IF icreated[p] = NoMobileUser THEN 0 ELSE 1) + Len(imark[p])]
  /\ icreated' = [icreated EXCEPT ![p] = NoMobileUser]
  /\ imark' = [imark EXCEPT ![p] = <<>>]
  /\ ilock' = IF ilock = p THEN 0 ELSE ilock

\* ids already given to rows, committed or not
UsedIds ==
  {musers[i].id : i \in DOMAIN musers} \cup {icreated[p].id : p \in Regs}
\* gen_random_uuid(): an id no row has
FreshId == CHOOSE n \in 1..(NumRegs + 2) : n \notin UsedIds

\* registerWithInviteCode: pool.connect() and BEGIN
RegBegin(p, dto, ok) ==
  /\ ipc[p] = "idle"
  /\ idto' = [idto EXCEPT ![p] = dto]
  /\ ilate' = [ilate EXCEPT ![p] = \E q \in Regs : ierr[q] = "ok"]
  /\ Fault(p, ok)
  /\ IF ok
     THEN ipc' = [ipc EXCEPT ![p] = "findInvite"] /\ UNCHANGED ierr
     ELSE RegThrows(p, "error")
  /\ UNCHANGED <<invite, musers, ilock, inow, icreated, imark, ires, iundone>>
  /\ UNCHANGED otherThanInv

\* registerWithInviteCode: look the invite up, reject a missing, used or expired one
RegFindInvite(p, ok) ==
  /\ ipc[p] = "findInvite"
  /\ IF ~ok
     THEN RegThrows(p, "error")
     ELSE IF ~findValidInviteByCode(invite, idto[p].inviteCode)
     THEN RegThrows(p, "BadRequest")
     ELSE IF InviteExpired(invite, inow)
     THEN RegThrows(p, "BadRequest")
     ELSE ipc' = [ipc EXCEPT ![p] = "findUser"] /\ UNCHANGED ierr
  /\ Fault(p, ok)
  /\ UNCHANGED <<invite, musers, ilock, inow, idto, icreated, imark, ires, ilate, iundone>>
  /\ UNCHANGED otherThanInv

\* registerWithInviteCode: findByUsernameAndCompanyId, reject a taken username
RegFindUser(p, ok) ==
  /\ ipc[p] = "findUser"
  /\ IF ~ok
     THEN RegThrows(p, "error")
     ELSE IF LiveByUsername(musers, normalizeUsername(idto[p].username)) # {}
     THEN RegThrows(p, "BadRequest")
     ELSE ipc' = [ipc EXCEPT ![p] = "create"] /\ UNCHANGED ierr
  /\ Fault(p, ok)
  /\ UNCHANGED <<invite, musers, ilock, inow, idto, icreated, imark, ires, ilate, iundone>>
  /\ UNCHANGED otherThanInv

\* registerWithInviteCode: users.create, the INSERT into mobile_user
RegCreate(p, ok) ==
  /\ ipc[p] = "create"
  /\ LET username == normalizeUsername(idto[p].username)
     IN \* wait for a transaction that holds the same key uncommitted
        /\ \A q \in Regs \ {p} : icreated[q].username # username
        /\ IF ~ok \/ KeyHolders(musers, username) # {}
           THEN /\ RegThrows(p, "error")
                /\ UNCHANGED icreated
           ELSE /\ icreated' = [icreated EXCEPT ![p] =
                      [id |-> FreshId, username |-> username, deleted |-> FALSE, by |-> p]]
                /\ ipc' = [ipc EXCEPT ![p] = "mark"]
                /\ UNCHANGED ierr
  /\ Fault(p, ok)
  /\ UNCHANGED <<invite, musers, ilock, inow, idto, imark, ires, ilate, iundone>>
  /\ UNCHANGED otherThanInv

\* registerWithInviteCode: markInviteAsUsed, the UPDATE of driver_invite
RegMark(p, ok) ==
  /\ ipc[p] = "mark"
  /\ ilock \in {0, p}
  /\ IF ok
     THEN /\ ilock' = p
          /\ imark' = [imark EXCEPT ![p] =
               <<markInviteAsUsed(invite, inow, icreated[p].id)>>]
          /\ ipc' = [ipc EXCEPT ![p] = "commit"]
          /\ UNCHANGED ierr
     ELSE /\ RegThrows(p, "error")
          /\ UNCHANGED <<ilock, imark>>
  /\ Fault(p, ok)
  /\ UNCHANGED <<invite, musers, inow, idto, icreated, ires, ilate, iundone>>
  /\ UNCHANGED otherThanInv

\* registerWithInviteCode: COMMIT; a COMMIT that fails has aborted the transaction
RegCommit(p, ok) ==
  /\ ipc[p] = "commit"
  /\ Fault(p, ok)
  /\ IF ok
     THEN /\ musers' = Append(musers, icreated[p])
          /\ invite' = imark[p][1]
          /\ ilock' = 0
          /\ icreated' = [icreated EXCEPT ![p] = NoMobileUser]
          /\ imark' = [imark EXCEPT ![p] = <<>>]
          /\ ierr' = [ierr EXCEPT ![p] = "ok"]
          /\ ipc' = [ipc EXCEPT ![p] = "release"]
          /\ UNCHANGED iundone
     ELSE /\ Undo(p)
          /\ RegThrows(p, "error")
          /\ UNCHANGED invite
  /\ UNCHANGED <<inow, idto, ires, ilate>>
  /\ UNCHANGED otherThanInv

\* registerWithInviteCode, catch block: ROLLBACK, then rethrow; an error of the
\* ROLLBACK itself takes the place of the one caught
RegRollback(p, ok) ==
  /\ ipc[p] = "rollback"
  /\ Fault(p, ok)
  /\ Undo(p)
  /\ ierr' = [ierr EXCEPT ![p] = IF ok THEN @ ELSE "error"]
  /\ ipc' = [ipc EXCEPT ![p] = "release"]
  /\ UNCHANGED <<invite, inow, idto, ires, ilate>>
  /\ UNCHANGED otherThanInv

\* registerWithInviteCode, finally block: client.release(); the call is answered
RegRelease(p) ==
  /\ ipc[p] = "release"
  /\ ipc' = [ipc EXCEPT ![p] = "done"]
  /\ ires' = [ires EXCEPT ![p] = ierr[p]]
  /\ UNCHANGED <<invite, musers, ilock, inow, idto, icreated, imark, ierr, ilate,
                 iundone, ifault>>
  /\ UNCHANGED otherThanInv

\* time passes
TickInv ==
  /\ inow < MaxInvNow
  /\ inow' = inow + 1
  /\ UNCHANGED <<invite, musers, ilock, ipc, idto, icreated, imark, ierr, ires, ilate,
                 iundone, ifault>>
  /\ UNCHANGED otherThanInv

NextInv ==
  \/ \E p \in Regs : \E dto \in RegDtos : \E ok \in BOOLEAN : RegBegin(p, dto, ok)
  \/ \E p \in Regs : \E ok \in BOOLEAN : RegFindInvite(p, ok)
  \/ \E p \in Regs : \E ok \in BOOLEAN : RegFindUser(p, ok)
  \/ \E p \in Regs : \E ok \in BOOLEAN : RegCreate(p, ok)
  \/ \E p \in Regs : \E ok \in BOOLEAN : RegMark(p, ok)
  \/ \E p \in Regs : \E ok \in BOOLEAN : RegCommit(p, ok)
  \/ \E p \in Regs : \E ok \in BOOLEAN : RegRollback(p, ok)
  \/ \E p \in Regs : RegRelease(p)
  \/ TickInv

(***************************************************************************)
(* Part 5. The authorization guard (RolesGuard).  AuthGuard('jwt') puts    *)
(* the claims of a signed access token in request.user; the guard decides  *)
(* from request.user and the handler's required permissions.  A token      *)
(* carries what the actor's row held when it was issued.                   *)
(***************************************************************************)

NumGuardReqs == 2
MaxAccessTokens == 1

GuardReqs == 1..NumGuardReqs

Permissions == {"p1", "p2"}
\* an id that is not the actor's
OtherId == 2

\* request.user.role: absent, or its authorizations
NoRole == <<>>
Roles == {NoRole} \cup {<<s>> : s \in SUBSET Permissions}

\* the claims the guard reads
AccessClaims ==
  [userId : {ActorId}, isSuperAdmin : BOOLEAN, actorType : ActorTypes, role : Roles]
NoClaims ==
  [userId |-> NoId, isSuperAdmin |-> FALSE, actorType |-> "web", role |-> NoRole]

\* a route: the handler's name, its @Roles metadata, and params.id
HandlerNames == {"update", "findOne", "remove"}
Routes ==
  [name : HandlerNames, required : SUBSET Permissions, id : {ActorId, OtherId}]

\* login: the payload that is signed
LoginPayload(type, row, role) ==
  [userId |-> ActorId, isSuperAdmin |-> row.isSuperAdmin, actorType |-> type,
   role |-> role]

\* requiredPermissions.some(...) in place of every(...)
hasSomePermissions(required, userPermissions) == required \cap userPermissions # {}

\* requiredPermissions.every((permission) => userPermissions.includes(permission))
hasAllPermissions(required, userPermissions) == required \subseteq userPermissions

\* canActivate: the rule that allows the request, or Forbidden
canActivate(user, route) ==
  IF route.required = {} THEN "open"
  ELSE IF user.isSuperAdmin THEN "superadmin"
  ELSE IF /\ user.actorType = "mobile"
          /\ route.name \in {"update", "findOne"}
          /\ user.userId = route.id THEN "self"
  ELSE IF user.role = NoRole THEN "Forbidden"
  ELSE IF hasAllPermissions(route.required, user.role[1]) THEN "permissions"
  ELSE "Forbidden"

GuardRules == {"open", "superadmin", "self", "permissions"}

InitGuard ==
  /\ gtokens = {}
  /\ gpc = [r \in GuardReqs |-> "idle"]
  /\ guser = [r \in GuardReqs |-> NoClaims]
  /\ groute = [r \in GuardReqs |-> <<>>]
  /\ gres = [r \in GuardReqs |-> "none"]
  /\ gflag = [r \in GuardReqs |-> FALSE]

\* login of the actor: an access token is signed from the row as it is now
IssueAccessToken(role) ==
  /\ Cardinality(gtokens) < MaxAccessTokens
  /\ RowFound(actor)
  /\ atype = "mobile" => role # NoRole
  /\ gtokens' = gtokens \cup {LoginPayload(atype, actor, role)}
  /\ UNCHANGED <<gpc, guser, groute, gres, gflag>>
  /\ UNCHANGED otherThanGuard

\* JwtStrategy.validate: request.user is the payload of the presented token
validate(r, payload) ==
  /\ gpc[r] = "idle"
  /\ payload \in gtokens
  /\ gpc' = [gpc EXCEPT ![r] = "guard"]
  /\ guser' = [guser EXCEPT ![r] = payload]
  /\ UNCHANGED <<gtokens, groute, gres, gflag>>
  /\ UNCHANGED otherThanGuard

\* RolesGuard.canActivate for the route of the request
Guard(r, route) ==
  /\ gpc[r] = "guard"
  /\ gpc' = [gpc EXCEPT ![r] = "done"]
  /\ groute' = [groute EXCEPT ![r] = <<route>>]
  /\ gres' = [gres EXCEPT ![r] = canActivate(guser[r], route)]
  /\ gflag' = [gflag EXCEPT ![r] = RowFound(actor) /\ actor.isSuperAdmin]
  /\ UNCHANGED <<gtokens, guser>>
  /\ UNCHANGED otherThanGuard

NextGuard ==
  \/ \E role \in Roles : IssueAccessToken(role)
  \/ \E r \in GuardReqs : \E payload \in AccessClaims : validate(r, payload)
  \/ \E r \in GuardReqs : \E route \in Routes : Guard(r, route)
  \/ \E row \in ActorRows("web") : AdminUpdate(row)

(***************************************************************************)
(* Part 6. Branch narrowing (RequestContextService.getEffectiveBranchId)   *)
(* and the list query that uses it (VehicleRepository.findAll).  The rows  *)
(* are those row-level security lets through: the actor's company.         *)
(***************************************************************************)

NumListQueries == 1
MaxVehicles == 2

ListQueries == 1..NumListQueries

Branches == {"X", "Y"}
\* a branch id that is absent (undefined or '')
NoBranch == ""
MaybeBranch == Branches \cup {NoBranch}

RoleNames == {"companyAdmin", "staff"}
NoRoleName == ""

\* what the store holds of the request context, as far as the narrowing reads it
BranchContexts ==
  [isSuperAdmin : BOOLEAN, roleName : RoleNames \cup {NoRoleName}, branchId : MaybeBranch]
NoBranchContext == [isSuperAdmin |-> FALSE, roleName |-> NoRoleName, branchId |-> NoBranch]

VehicleIds == 1..MaxVehicles
VehicleRows == [id : VehicleIds, branchId : Branches, deleted : BOOLEAN]
\* tables: one row per id
VehicleTables ==
  {t \in SUBSET VehicleRows : \A v, w \in t : v.id = w.id => v = w}

isCompanyAdmin(ctx) == ctx.roleName = "companyAdmin"

\* a narrowing that lets the query parameter win when there is one
getEffectiveBranchIdQueryFirst(ctx, queryBranchId) ==
  IF isCompanyAdmin(ctx) \/ ctx.isSuperAdmin \/ queryBranchId # NoBranch
  THEN queryBranchId
  ELSE ctx.branchId

getEffectiveBranchId(ctx, queryBranchId) ==
  IF isCompanyAdmin(ctx) \/ ctx.isSuperAdmin
  THEN queryBranchId
  ELSE ctx.branchId

\* findMany: deletedAt IS NULL, and branchId = effectiveBranchId when that is truthy
findAll(rows, ctx, branchId) ==
  LET effectiveBranchId == getEffectiveBranchId(ctx, branchId)
  IN {v \in rows :
        /\ ~v.deleted
        /\ effectiveBranchId # NoBranch => v.branchId = effectiveBranchId}

InitBranch ==
  /\ vehicles \in VehicleTables
  /\ lpc = [r \in ListQueries |-> "idle"]
  /\ lctx = [r \in ListQueries |-> NoBranchContext]
  /\ lq = [r \in ListQueries |-> NoBranch]
  /\ leff = [r \in ListQueries |-> NoBranch]
  /\ lrows = [r \in ListQueries |-> {}]

\* GET /vehicles?branchId=q in the context ctx
ListVehicles(r, ctx, q) ==
  /\ lpc[r] = "idle"
  /\ lpc' = [lpc EXCEPT ![r] = "done"]
  /\ lctx' = [lctx EXCEPT ![r] = ctx]
  /\ lq' = [lq EXCEPT ![r] = q]
  /\ leff' = [leff EXCEPT ![r] = getEffectiveBranchId(ctx, q)]
  /\ lrows' = [lrows EXCEPT ![r] = findAll(vehicles, ctx, q)]
  /\ UNCHANGED vehicles
  /\ UNCHANGED otherThanBranch

\* the next request of the same client
ListAgain(r) ==
  /\ lpc[r] = "done"
  /\ lpc' = [lpc EXCEPT ![r] = "idle"]
  /\ lctx' = [lctx EXCEPT ![r] = NoBranchContext]
  /\ lq' = [lq EXCEPT ![r] = NoBranch]
  /\ leff' = [leff EXCEPT ![r] = NoBranch]
  /\ lrows' = [lrows EXCEPT ![r] = {}]
  /\ UNCHANGED vehicles
  /\ UNCHANGED otherThanBranch

NextBranch ==
  \/ \E r \in ListQueries : \E ctx \in BranchContexts : \E q \in MaybeBranch :
       ListVehicles(r, ctx, q)
  \/ \E r \in ListQueries : ListAgain(r)

(***************************************************************************)
(* Part 7. The tenant_isolation_company policy (FOR ALL, USING and WITH    *)
(* CHECK) as PostgreSQL evaluates it for one session under the restricted  *)
(* role: SQL's NULL and its three-valued OR, current_setting(.., true),    *)
(* COALESCE, NULLIF and the cast to uuid.  A custom setting that was SET   *)
(* LOCAL reads as '' once its transaction has ended.                       *)
(***************************************************************************)

\* bounds
MaxPolicyRows == 2

PolicyRowIds == 1..MaxPolicyRows

\* DEFAULT_COMPANY_ID: the nil uuid, the id of no company
DEFAULT_COMPANY_ID == "00000000"

\* the values the program gives the two settings
SuperadminSettings == {"true", "false"}
CompanySettings == Companies \cup {NoCompany, DEFAULT_COMPANY_ID}

\* a companyId column: a company's id, or NULL ("user" rows of no company)
CompanyIdColumn == {Some(co) : co \in Companies} \cup {NULL}
NoPolicyRow == <<"no", "row">>

\* current_setting(name, true): NULL when the setting was never set
current_setting(settings, name) ==
  IF settings[name] = Unset THEN NULL ELSE Some(settings[name])

COALESCE(x, y) == IF IsNull(x) THEN y ELSE x

NULLIF(x, y) == IF x = y THEN NULL ELSE x

\* ::uuid of a text that is NULL or spells a uuid
CastUuid(x) == x

\* a = b
SqlEq(a, b) == IF IsNull(a) \/ IsNull(b) THEN NULL ELSE Some(Val(a) = Val(b))

\* a OR b
SqlOr(a, b) ==
  IF a = Some(TRUE) \/ b = Some(TRUE) THEN Some(TRUE)
  ELSE IF IsNull(a) \/ IsNull(b) THEN NULL
  ELSE Some(FALSE)

\* a policy whose company test alone decides
tenantIsolationCompanyPolicyNoBypass(settings, companyId) ==
  SqlEq(companyId, CastUuid(NULLIF(current_setting(settings, "co"), Some(""))))

\* the expression of USING and of WITH CHECK, for a row with that companyId
tenantIsolationCompanyPolicy(settings, companyId) ==
  SqlOr(SqlEq(COALESCE(current_setting(settings, "sa"), Some("false")), Some("true")),
        SqlEq(companyId, CastUuid(NULLIF(current_setting(settings, "co"), Some("")))))

\* a row passes a policy when the expression is true (not false, not NULL)
Passes(settings, companyId) ==
  tenantIsolationCompanyPolicy(settings, companyId) = Some(TRUE)

\* the rows of the table
PolicyRows == {id \in PolicyRowIds : ptable[id] # NoPolicyRow}

InitPolicy ==
  /\ psess = [sa |-> Unset, co |-> Unset]
  /\ ptable = [id \in PolicyRowIds |-> NoPolicyRow]
  /\ pseen = {}
  /\ pres = "none"

\* SET LOCAL app.is_superadmin = '..'
SetLocalSuperadmin(v) ==
  /\ psess' = [psess EXCEPT !.sa = v]
  /\ UNCHANGED <<ptable, pseen, pres>>
  /\ UNCHANGED otherThanPolicy

\* SELECT set_config('app.current_company_id', $1, true)
SetConfigCompany(v) ==
  /\ psess' = [psess EXCEPT !.co = v]
  /\ UNCHANGED <<ptable, pseen, pres>>
  /\ UNCHANGED otherThanPolicy

\* setLocalRlsRole: the role, then both settings at their defaults
setLocalRlsRole ==
  /\ psess' = [sa |-> "false", co |-> DEFAULT_COMPANY_ID]
  /\ UNCHANGED <<ptable, pseen, pres>>
  /\ UNCHANGED otherThanPolicy

\* COMMIT and the next BEGIN: a setting that was set reads as ''
NextTransaction ==
  /\ psess' = [f \in {"sa", "co"} |-> IF psess[f] = Unset THEN Unset ELSE ""]
  /\ UNCHANGED <<ptable, pseen, pres>>
  /\ UNCHANGED otherThanPolicy

\* SELECT * FROM t: the rows that pass USING
PolicySelect ==
  /\ pseen' = {id \in PolicyRows : Passes(psess, ptable[id])}
  /\ pres' = "selected"
  /\ UNCHANGED <<psess, ptable>>
  /\ UNCHANGED otherThanPolicy

\* INSERT INTO t: the new row must pass WITH CHECK, or the statement fails
PolicyInsert(id, companyId) ==
  /\ ptable[id] = NoPolicyRow
  /\ IF Passes(psess, companyId)
     THEN ptable' = [ptable EXCEPT ![id] = companyId] /\ pres' = "inserted"
     ELSE ptable' = ptable /\ pres' = "violation"
  /\ UNCHANGED <<psess, pseen>>
  /\ UNCHANGED otherThanPolicy

\* UPDATE t SET "companyId" = .. WHERE id = ..: USING selects the row,
\* WITH CHECK judges its new version
PolicyUpdate(id, companyId) ==
  /\ IF id \notin PolicyRows \/ ~Passes(psess, ptable[id])
     THEN ptable' = ptable /\ pres' = "updated0"
     ELSE IF Passes(psess, companyId)
     THEN ptable' = [ptable EXCEPT ![id] = companyId] /\ pres' = "updated1"
     ELSE ptable' = ptable /\ pres' = "violation"
  /\ UNCHANGED <<psess, pseen>>
  /\ UNCHANGED otherThanPolicy

\* DELETE FROM t WHERE id = ..: only a row that passes USING
PolicyDelete(id) ==
  /\ IF id \in PolicyRows /\ Passes(psess, ptable[id])
     THEN ptable' = [ptable EXCEPT ![id] = NoPolicyRow] /\ pres' = "deleted1"
     ELSE ptable' = ptable /\ pres' = "deleted0"
  /\ UNCHANGED <<psess, pseen>>
  /\ UNCHANGED otherThanPolicy

NextPolicy ==
  \/ \E v \in SuperadminSettings : SetLocalSuperadmin(v)
  \/ \E v \in CompanySettings : SetConfigCompany(v)
  \/ setLocalRlsRole
  \/ NextTransaction
  \/ PolicySelect
  \/ \E id \in PolicyRowIds : \E co \in CompanyIdColumn : PolicyInsert(id, co)
  \/ \E id \in PolicyRowIds : \E co \in CompanyIdColumn : PolicyUpdate(id, co)
  \/ \E id \in PolicyRowIds : PolicyDelete(id)

(***************************************************************************)
(* Part 8. The queue context bridge (RabbitmqService).  publishTenant puts *)
(* a snapshot of the ambient request context in the message as JSON;       *)
(* consumeTenant parses it, binds a transaction for it and runs the        *)
(* handler inside that context.  A JavaScript object is a function from    *)
(* the keys it has to their values; reading a key it has not gives         *)
(* undefined (NULL here).                                                  *)
(***************************************************************************)

\* bounds
MaxQueue == 1

\* the keys of RequestContextData, in the order snapshot() writes them
ContextKeys ==
  <<"companyId", "branchId", "userId", "actorType", "isSuperAdmin", "roleName",
    "permissions">>
KeySet == {ContextKeys[i] : i \in 1..Len(ContextKeys)}

\* undefined, or a value of S
Opt(S) == {NULL} \cup {Some(v) : v \in S}

\* an object literal: the keys whose value is given
Obj(fields) == [k \in {k \in DOMAIN fields : ~IsNull(fields[k])} |-> Val(fields[k])]

\* o.k, o?.k
Get(o, k) == IF k \in DOMAIN o THEN Some(o[k]) ELSE NULL

\* the store of AsyncLocalStorage: no store, or a RequestContextStoreValue
NoStore == Obj([k \in KeySet |-> NULL])
StoreValues ==
  {NoStore} \cup
  {Obj([companyId |-> co, branchId |-> br, userId |-> who[1], actorType |-> who[2],
        isSuperAdmin |-> Some(sa), roleName |-> rn, permissions |-> Some(pm)]) :
     co \in Opt(MaybeCompany), br \in Opt({"X"}),
     who \in {<<NULL, NULL>>, <<Some(ActorId), Some("mobile")>>},
     sa \in BOOLEAN, rn \in Opt({"staff"}), pm \in {<<>>, <<"p1", "p2">>}}

\* a snapshot that leaves the branch out
snapshotNoBranch(ctx) ==
  [companyId |-> Get(ctx, "companyId"),
   branchId |-> NULL,
   userId |-> Get(ctx, "userId"),
   actorType |-> Get(ctx, "actorType"),
   isSuperAdmin |-> COALESCE(Get(ctx, "isSuperAdmin"), Some(FALSE)),
   roleName |-> Get(ctx, "roleName"),
   permissions |-> COALESCE(Get(ctx, "permissions"), Some(<<>>))]

\* RequestContextService.snapshot: an object literal with all seven keys,
\* some of them undefined
snapshot(ctx) ==
  [companyId |-> Get(ctx, "companyId"),
   branchId |-> Get(ctx, "branchId"),
   userId |-> Get(ctx, "userId"),
   actorType |-> Get(ctx, "actorType"),
   isSuperAdmin |-> COALESCE(Get(ctx, "isSuperAdmin"), Some(FALSE)),
   roleName |-> Get(ctx, "roleName"),
   permissions |-> COALESCE(Get(ctx, "permissions"), Some(<<>>))]

\* JSON.stringify of an object literal: its members in key order, a member
\* whose value is undefined left out
JSONstringify(fields) ==
  LET present == SelectSeq(ContextKeys, LAMBDA k : ~IsNull(fields[k]))
  IN [i \in 1..Len(present) |-> <<present[i], Val(fields[present[i]])>>]

\* JSON.parse of an object's text: the object with those members
JSONparse(members) ==
  [k \in {members[i][1] : i \in 1..Len(members)} |->
     members[CHOOSE i \in 1..Len(members) : members[i][1] = k][2]]

\* !x for a string and for a boolean that may be undefined
FalsyString(x) == IsNull(x) \/ Val(x) = ""
FalsyBoolean(x) == IsNull(x) \/ ~Val(x)

\* a message of publishTenant: its content, and (history) the store in force
\* at the call
TenantMessage(ctx) ==
  [hasContext |-> TRUE, requestContext |-> JSONstringify(snapshot(ctx)),
   bridged |-> TRUE, from |-> ctx]
\* a message published with publish(): no requestContext member
PlainMessage ==
  [hasContext |-> FALSE, requestContext |-> <<>>, bridged |-> FALSE, from |-> NoStore]
\* the messages of producers that call publish() themselves: without a
\* requestContext, or with one that carries no company scope
OtherMessages ==
  {PlainMessage,
   [hasContext |-> TRUE, requestContext |-> JSONstringify(snapshot(NoStore)),
    bridged |-> FALSE, from |-> NoStore]}

ConsumerSettings == [role |-> LOGIN_ROLE, sa |-> Unset, co |-> Unset]

InitQueue ==
  /\ queue = <<>>
  /\ qpub = "none"
  /\ cpc = "idle"
  /\ cmsg = PlainMessage
  /\ cctx = NoStore
  /\ cstore = NoStore
  /\ csess = ConsumerSettings
  /\ cheld = FALSE
  /\ cerr = FALSE
  /\ cres = "none"

\* publishTenant: snapshot, the company-scope test, publish
publishTenant(ctx) ==
  /\ Len(queue) < MaxQueue
  /\ LET requestContext == snapshot(ctx) IN
     IF FalsyBoolean(requestContext.isSuperAdmin) /\ FalsyString(requestContext.companyId)
     THEN /\ qpub' = "Company context not available"
          /\ queue' = queue
     ELSE /\ qpub' = "published"
          /\ queue' = Append(queue, TenantMessage(ctx))
  /\ UNCHANGED <<cpc, cmsg, cctx, cstore, csess, cheld, cerr, cres>>
  /\ UNCHANGED otherThanQueue

\* publish: a message of another producer on the same queue
publish(message) ==
  /\ Len(queue) < MaxQueue
  /\ qpub' = "published"
  /\ queue' = Append(queue, message)
  /\ UNCHANGED <<cpc, cmsg, cctx, cstore, csess, cheld, cerr, cres>>
  /\ UNCHANGED otherThanQueue

\* consumeTenant's callback up to pool.connect(): parse, the requestContext
\* test, shouldUseTransaction
Deliver ==
  /\ cpc = "idle"
  /\ queue # <<>>
  /\ LET message == Head(queue) IN
     /\ queue' = Tail(queue)
     /\ cmsg' = message
     /\ cres' = "none"
     /\ IF ~message.hasContext
        THEN /\ cpc' = "answer"
             /\ cerr' = TRUE
             /\ cctx' = NoStore
             /\ cstore' = NoStore
        ELSE LET ctx == JSONparse(message.requestContext)
                 shouldUseTransaction ==
                   ~FalsyBoolean(Get(ctx, "isSuperAdmin")) \/ ~FalsyString(Get(ctx, "companyId"))
             IN /\ cctx' = ctx
                /\ cerr' = FALSE
                /\ cpc' = IF shouldUseTransaction THEN "connect" ELSE "handlerNoTransaction"
                /\ cstore' = IF shouldUseTransaction THEN NoStore ELSE ctx
  /\ UNCHANGED <<qpub, csess, cheld>>
  /\ UNCHANGED otherThanQueue

\* requestContext.run(ctx, handler) without a transaction
HandlerNoTransaction(ok) ==
  /\ cpc = "handlerNoTransaction"
  /\ cpc' = "answer"
  /\ cerr' = ~ok
  /\ cstore' = NoStore
  /\ UNCHANGED <<queue, qpub, cmsg, cctx, csess, cheld, cres>>
  /\ UNCHANGED otherThanQueue

\* pool.connect(), outside the try block
QueueConnect(ok) ==
  /\ cpc = "connect"
  /\ IF ok
     THEN cpc' = "begin" /\ cheld' = TRUE /\ cerr' = FALSE
     ELSE cpc' = "answer" /\ cheld' = FALSE /\ cerr' = TRUE
  /\ UNCHANGED <<queue, qpub, cmsg, cctx, cstore, csess, cres>>
  /\ UNCHANGED otherThanQueue

\* BEGIN, then setLocalRlsRole: the role and both settings at their defaults
QueueBegin(ok) ==
  /\ cpc = "begin"
  /\ IF ok
     THEN /\ csess' = [role |-> RLS_DB_ROLE, sa |-> "false", co |-> DEFAULT_COMPANY_ID]
          /\ cpc' = "bind"
     ELSE /\ csess' = csess
          /\ cpc' = "rollback"
  /\ UNCHANGED <<queue, qpub, cmsg, cctx, cstore, cheld, cerr, cres>>
  /\ UNCHANGED otherThanQueue

\* if (ctx.isSuperAdmin) SET LOCAL app.is_superadmin = 'true'
\* else if (ctx.companyId) set_config('app.current_company_id', ctx.companyId, true);
\* then requestContext.run({...ctx, pgClient, db}, handler) starts
QueueBind(ok) ==
  /\ cpc = "bind"
  /\ IF ok
     THEN /\ csess' =
               IF ~FalsyBoolean(Get(cctx, "isSuperAdmin"))
               THEN [csess EXCEPT !.sa = "true"]
               ELSE IF ~FalsyString(Get(cctx, "companyId"))
               THEN [csess EXCEPT !.co = cctx["companyId"]]
               ELSE csess
          /\ cstore' = cctx
          /\ cpc' = "handler"
     ELSE /\ csess' = csess
          /\ cstore' = cstore
          /\ cpc' = "rollback"
  /\ UNCHANGED <<queue, qpub, cmsg, cctx, cheld, cerr, cres>>
  /\ UNCHANGED otherThanQueue

\* the handler ends
QueueHandler(ok) ==
  /\ cpc = "handler"
  /\ cpc' = IF ok THEN "commit" ELSE "rollback"
  /\ cstore' = NoStore
  /\ UNCHANGED <<queue, qpub, cmsg, cctx, csess, cheld, cerr, cres>>
  /\ UNCHANGED otherThanQueue

\* COMMIT; a failure goes to the catch block
QueueCommit(ok) ==
  /\ cpc = "commit"
  /\ IF ok
     THEN cpc' = "release" /\ csess' = ConsumerSettings
     ELSE cpc' = "rollback" /\ csess' = csess
  /\ UNCHANGED <<queue, qpub, cmsg, cctx, cstore, cheld, cerr, cres>>
  /\ UNCHANGED otherThanQueue

\* catch: ROLLBACK, throw error
QueueRollback ==
  /\ cpc = "rollback"
  /\ cpc' = "release"
  /\ csess' = ConsumerSettings
  /\ cerr' = TRUE
  /\ UNCHANGED <<queue, qpub, cmsg, cctx, cstore, cheld, cres>>
  /\ UNCHANGED otherThanQueue

\* finally: client.release()
QueueRelease ==
  /\ cpc = "release"
  /\ cheld' = FALSE
  /\ cpc' = "answer"
  /\ UNCHANGED <<queue, qpub, cmsg, cctx, cstore, csess, cerr, cres>>
  /\ UNCHANGED otherThanQueue

\* consume: channel.ack(message), or on an error channel.nack(message, false, false)
AckOrNack ==
  /\ cpc = "answer"
  /\ cres' = IF cerr THEN "nack" ELSE "ack"
  /\ cpc' = "idle"
  /\ cerr' = FALSE
  /\ UNCHANGED <<queue, qpub, cmsg, cctx, cstore, csess, cheld>>
  /\ UNCHANGED otherThanQueue

NextQueue ==
  \/ \E ctx \in StoreValues : publishTenant(ctx)
  \/ \E message \in OtherMessages : publish(message)
  \/ Deliver
  \/ \E ok \in BOOLEAN : HandlerNoTransaction(ok)
  \/ \E ok \in BOOLEAN : QueueConnect(ok)
  \/ \E ok \in BOOLEAN : QueueBegin(ok)
  \/ \E ok \in BOOLEAN : QueueBind(ok)
  \/ \E ok \in BOOLEAN : QueueHandler(ok)
  \/ \E ok \in BOOLEAN : QueueCommit(ok)
  \/ QueueRollback
  \/ QueueRelease
  \/ AckOrNack

\* ---------------------------------------------------------------------------
\* Part 9: driver invites (DriverService.createInvite / revokeInvite and the
\* registrations that use an invite), each call in its own transaction under
\* READ COMMITTED
\* ---------------------------------------------------------------------------

NumInviteCalls == 2
MaxInvites == 2
NumDrivers == 2

InviteCalls == 1..NumInviteCalls
InviteIds == 1..MaxInvites
Drivers == 1..NumDrivers

\* a dto.driverId that names no driver of the company
UnknownDriver == 0

\* what dto.branchId is, seen from the checks of createInvite: absent, the
\* driver's own branch, another branch of the company, a branch of no company
\* of the caller
DtoBranches == {"absent", "own", "another", "foreign"}

NoInviteRow == [driverId |-> UnknownDriver, state |-> "none"]
NoWrite == [kind |-> "none", id |-> 0]
NoInviteDto == [driverId |-> UnknownDriver, branch |-> "absent", inviteCode |-> 0]

\* findActiveInviteByDriverId: driverId = $1 AND "usedAt" IS NULL, on what the
\* snapshot of the statement shows (the committed rows; the call has written
\* nothing before its lookup)
ActiveInvites(rows, driverId) ==
  {i \in InviteIds : rows[i].driverId = driverId /\ rows[i].state = "active"}

\* the ids an INSERT may still draw: rows are never given the id of an earlier row
FreeInviteIds ==
  {i \in InviteIds : dinv[i].state = "none"
                     /\ \A c \in InviteCalls : dwrite[c].id # i}

\* createInvite's `if (existingInvite) throw new ConflictException`
ExistingInviteSeen(seen) == seen # 0

\* the table after COMMIT of a call's write
ApplyWrite(rows, w, driverId) ==
  IF w.kind = "insert" THEN [rows EXCEPT ![w.id] = [driverId |-> driverId, state |-> "active"]]
  ELSE IF w.kind = "delete" THEN [rows EXCEPT ![w.id].state = "deleted"]
  ELSE IF w.kind = "mark" THEN [rows EXCEPT ![w.id].state = "used"]
  ELSE rows

InitDrv ==
  /\ dinv = [i \in InviteIds |-> NoInviteRow]
  /\ dlock = [i \in InviteIds |-> 0]
  /\ dpc = [c \in InviteCalls |-> "idle"]
  /\ dop = [c \in InviteCalls |-> "none"]
  /\ ddto = [c \in InviteCalls |-> NoInviteDto]
  /\ dseen = [c \in InviteCalls |-> 0]
  /\ dwrite = [c \in InviteCalls |-> NoWrite]
  /\ dres = [c \in InviteCalls |-> "none"]

\* the call ends: its transaction is over, its row locks are gone
DrvEnds(c, result) ==
  /\ dpc' = [dpc EXCEPT ![c] = "done"]
  /\ dres' = [dres EXCEPT ![c] = result]
  /\ dwrite' = [dwrite EXCEPT ![c] = NoWrite]
  /\ dlock' = [i \in InviteIds |-> IF dlock[i] = c THEN 0 ELSE dlock[i]]

DrvGoes(c, pos) ==
  /\ dpc' = [dpc EXCEPT ![c] = pos]
  /\ UNCHANGED <<dres, dwrite, dlock>>

\* POST /drivers/invites reaches DriverService.createInvite
createInviteCall(c, driverId, branch) ==
  /\ dpc[c] \in {"idle", "done"}
  /\ dop' = [dop EXCEPT ![c] = "create"]
  /\ ddto' = [ddto EXCEPT ![c] = [driverId |-> driverId, branch |-> branch, inviteCode |-> 0]]
  /\ dseen' = [dseen EXCEPT ![c] = 0]
  /\ dres' = [dres EXCEPT ![c] = "none"]
  /\ dpc' = [dpc EXCEPT ![c] = "findDriver"]
  /\ UNCHANGED <<dinv, dlock, dwrite>>
  /\ UNCHANGED otherThanDrv

\* DELETE /drivers/:id/invite reaches DriverService.revokeInvite
revokeInviteCall(c, driverId) ==
  /\ dpc[c] \in {"idle", "done"}
  /\ dop' = [dop EXCEPT ![c] = "revoke"]
  /\ ddto' = [ddto EXCEPT ![c] = [driverId |-> driverId, branch |-> "absent", inviteCode |-> 0]]
  /\ dseen' = [dseen EXCEPT ![c] = 0]
  /\ dres' = [dres EXCEPT ![c] = "none"]
  /\ dpc' = [dpc EXCEPT ![c] = "findDriver"]
  /\ UNCHANGED <<dinv, dlock, dwrite>>
  /\ UNCHANGED otherThanDrv

\* a registration presents the code of invite i
registerCall(c, i) ==
  /\ dpc[c] \in {"idle", "done"}
  /\ dop' = [dop EXCEPT ![c] = "register"]
  /\ ddto' = [ddto EXCEPT ![c] = [driverId |-> UnknownDriver, branch |-> "absent", inviteCode |-> i]]
  /\ dseen' = [dseen EXCEPT ![c] = 0]
  /\ dres' = [dres EXCEPT ![c] = "none"]
  /\ dpc' = [dpc EXCEPT ![c] = "findByCode"]
  /\ UNCHANGED <<dinv, dlock, dwrite>>
  /\ UNCHANGED otherThanDrv

\* findOneById(dto.driverId), `if (!driver) throw new NotFoundException`
DrvFindDriver(c, ok) ==
  /\ dpc[c] = "findDriver"
  /\ IF ~ok THEN DrvEnds(c, "error")
     ELSE IF ddto[c].driverId \notin Drivers THEN DrvEnds(c, "NotFound")
     ELSE DrvGoes(c, "findActive")
  /\ UNCHANGED <<dinv, dop, ddto, dseen>>
  /\ UNCHANGED otherThanDrv

\* findActiveInviteByDriverId: findFirst returns any one matching row.
\* createInvite answers Conflict when there is one, revokeInvite NotFound when
\* there is none
DrvFindActive(c, ok, seen) ==
  /\ dpc[c] = "findActive"
  /\ LET found == ActiveInvites(dinv, ddto[c].driverId) IN
       IF found = {} THEN seen = 0 ELSE seen \in found
  /\ IF ~ok THEN DrvEnds(c, "error") /\ UNCHANGED dseen
     ELSE /\ dseen' = [dseen EXCEPT ![c] = seen]
          /\ IF dop[c] = "create"
             THEN IF ExistingInviteSeen(seen) THEN DrvEnds(c, "Conflict")
                  ELSE DrvGoes(c, "branch")
             ELSE IF seen = 0 THEN DrvEnds(c, "NotFound")
                  ELSE DrvGoes(c, "delete")
  /\ UNCHANGED <<dinv, dop, ddto>>
  /\ UNCHANGED otherThanDrv

\* createInvite, `if (dto.branchId)`: findBranchWithinCompany, Forbidden for a
\* branch outside the company, BadRequest for a branch that is not the driver's
DrvBranchCheck(c, ok) ==
  /\ dpc[c] = "branch"
  /\ IF ddto[c].branch = "absent" THEN DrvGoes(c, "insert")
     ELSE IF ~ok THEN DrvEnds(c, "error")
     ELSE IF ddto[c].branch = "foreign" THEN DrvEnds(c, "Forbidden")
     ELSE IF ddto[c].branch = "another" THEN DrvEnds(c, "BadRequest")
     ELSE DrvGoes(c, "insert")
  /\ UNCHANGED <<dinv, dop, ddto, dseen>>
  /\ UNCHANGED otherThanDrv

\* DriverRepository.createInvite: INSERT INTO driver_invite, a new id and code
DrvInsert(c, ok, i) ==
  /\ dpc[c] = "insert"
  /\ i \in FreeInviteIds
  /\ IF ~ok THEN DrvEnds(c, "error")
     ELSE /\ dwrite' = [dwrite EXCEPT ![c] = [kind |-> "insert", id |-> i]]
          /\ dpc' = [dpc EXCEPT ![c] = "commit"]
          /\ UNCHANGED <<dres, dlock>>
  /\ UNCHANGED <<dinv, dop, ddto, dseen>>
  /\ UNCHANGED otherThanDrv

\* DriverRepository.revokeInvite: DELETE .. WHERE id = $1 AND "usedAt" IS NULL.
\* The statement waits for the row's lock and then looks at the row as it is
\* committed; revokeInvite ignores whether a row was deleted
DrvDelete(c, ok) ==
  /\ dpc[c] = "delete"
  /\ dlock[dseen[c]] \in {0, c}
  /\ IF ~ok THEN DrvEnds(c, "error")
     ELSE /\ dpc' = [dpc EXCEPT ![c] = "commit"]
          /\ IF dinv[dseen[c]].state = "active"
             THEN /\ dwrite' = [dwrite EXCEPT ![c] = [kind |-> "delete", id |-> dseen[c]]]
                  /\ dlock' = [dlock EXCEPT ![dseen[c]] = c]
             ELSE UNCHANGED <<dwrite, dlock>>
          /\ UNCHANGED dres
  /\ UNCHANGED <<dinv, dop, ddto, dseen>>
  /\ UNCHANGED otherThanDrv

\* registerWithInviteCode: findValidInviteByCode (code = $1 AND "usedAt" IS NULL),
\* BadRequest when there is none
DrvFindByCode(c, ok) ==
  /\ dpc[c] = "findByCode"
  /\ IF ~ok THEN DrvEnds(c, "error") /\ UNCHANGED dseen
     ELSE IF dinv[ddto[c].inviteCode].state # "active"
     THEN DrvEnds(c, "BadRequest") /\ UNCHANGED dseen
     ELSE /\ dseen' = [dseen EXCEPT ![c] = ddto[c].inviteCode]
          /\ DrvGoes(c, "mark")
  /\ UNCHANGED <<dinv, dop, ddto>>
  /\ UNCHANGED otherThanDrv

\* registerWithInviteCode after the mobile user is created (a failure there is
\* ok = FALSE): markInviteAsUsed, UPDATE .. WHERE id = $1, which waits for the
\* row's lock and updates the row if it is still there
DrvMark(c, ok) ==
  /\ dpc[c] = "mark"
  /\ dlock[dseen[c]] \in {0, c}
  /\ IF ~ok THEN DrvEnds(c, "error")
     ELSE /\ dpc' = [dpc EXCEPT ![c] = "commit"]
          /\ IF dinv[dseen[c]].state \in {"active", "used"}
             THEN /\ dwrite' = [dwrite EXCEPT ![c] = [kind |-> "mark", id |-> dseen[c]]]
                  /\ dlock' = [dlock EXCEPT ![dseen[c]] = c]
             ELSE UNCHANGED <<dwrite, dlock>>
          /\ UNCHANGED dres
  /\ UNCHANGED <<dinv, dop, ddto, dseen>>
  /\ UNCHANGED otherThanDrv

\* COMMIT of the call's transaction; a COMMIT that fails has written nothing
DrvCommit(c, ok) ==
  /\ dpc[c] = "commit"
  /\ dinv' = IF ok THEN ApplyWrite(dinv, dwrite[c], ddto[c].driverId) ELSE dinv
  /\ DrvEnds(c, IF ok THEN "ok" ELSE "error")
  /\ UNCHANGED <<dop, ddto, dseen>>
  /\ UNCHANGED otherThanDrv

NextDrv ==
  \E c \in InviteCalls :
    \/ \E driverId \in Drivers \cup {UnknownDriver}, branch \in DtoBranches :
         createInviteCall(c, driverId, branch)
    \/ \E driverId \in Drivers \cup {UnknownDriver} : revokeInviteCall(c, driverId)
    \/ \E i \in InviteIds : registerCall(c, i)
    \/ \E ok \in BOOLEAN :
         \/ DrvFindDriver(c, ok)
         \/ \E seen \in InviteIds \cup {0} : DrvFindActive(c, ok, seen)
         \/ DrvBranchCheck(c, ok)
         \/ \E i \in InviteIds : DrvInsert(c, ok, i)
         \/ DrvDelete(c, ok)
         \/ DrvFindByCode(c, ok)
         \/ DrvMark(c, ok)
         \/ DrvCommit(c, ok)

\* ---------------------------------------------------------------------------
\* Part 10: lookups that open a transaction of their own, outside the
\* interceptor: MobileUserService.pickSeed and findByIdWithRlsBootstrap,
\* UserService.findByUsername (findById has the same shape)
\* ---------------------------------------------------------------------------

NumLookups == 2

Lookups == 1..NumLookups

LookupKinds == {"pickSeed", "findByUsername", "findByIdWithRlsBootstrap"}

\* pickSeed is given a companyId or none; findByIdWithRlsBootstrap a seed that
\* is a superadmin, has a company, or has neither; findByUsername only a name
LookupArgs(kind) ==
  IF kind = "pickSeed" THEN {"company", "none"}
  ELSE IF kind = "findByIdWithRlsBootstrap" THEN {"superadmin", "company", "noscope"}
  ELSE {"none"}

\* what the SELECT of a call can return: findAuthSeedsByUsername returns every
\* mobile user of that name, the other lookups at most one row
LookupResults(kind, arg) ==
  IF kind = "pickSeed" /\ arg = "none" THEN {"none", "one", "many"} ELSE {"none", "one"}

\* pickSeed without companyId: `seeds.length` is neither 0 nor 1
AmbiguousUsername(kind, arg, seen) == kind = "pickSeed" /\ arg = "none" /\ seen = "many"

\* the statement that follows a setup statement; "throw" is the
\* UnauthorizedException for a seed without scope
AfterStatement(kind, arg, pos) ==
  IF pos = "begin" THEN "role"
  ELSE IF pos = "role"
       THEN IF kind # "findByIdWithRlsBootstrap" THEN "sa"
            ELSE IF arg = "superadmin" THEN "sa"
            ELSE IF arg = "company" THEN "co" ELSE "throw"
  ELSE IF pos = "sa"
       THEN IF kind = "findByIdWithRlsBootstrap" THEN "find" ELSE "co"
  ELSE IF pos = "co"
       THEN IF kind = "findByUsername" THEN "findSeed" ELSE "find"
  ELSE IF pos = "sa2" THEN "co2"
  ELSE "find"

SetupStatements == {"begin", "role", "sa", "co", "sa2", "co2"}

InitOut ==
  /\ okind = [c \in Lookups |-> "none"]
  /\ oarg = [c \in Lookups |-> "none"]
  /\ opc = [c \in Lookups |-> "idle"]
  /\ oseen = [c \in Lookups |-> "unset"]
  /\ otxn = [c \in Lookups |-> FALSE]
  /\ ofault = [c \in Lookups |-> FALSE]
  /\ ocommit = [c \in Lookups |-> 0]
  /\ orollback = [c \in Lookups |-> 0]
  /\ orelease = [c \in Lookups |-> 0]
  /\ ores = [c \in Lookups |-> "none"]

\* an exception inside the try block: control goes to the catch block
LookupThrows(c, err) ==
  /\ opc' = [opc EXCEPT ![c] = "catch"]
  /\ ores' = [ores EXCEPT ![c] = err]

\* a statement was rejected
LookupFault(c, ok) == ofault' = [ofault EXCEPT ![c] = @ \/ ~ok]

\* a lookup is called (a login, a token validation)
LookupCall(c, kind, arg) ==
  /\ opc[c] \in {"idle", "done"}
  /\ arg \in LookupArgs(kind)
  /\ okind' = [okind EXCEPT ![c] = kind]
  /\ oarg' = [oarg EXCEPT ![c] = arg]
  /\ opc' = [opc EXCEPT ![c] = "connect"]
  /\ oseen' = [oseen EXCEPT ![c] = "unset"]
  /\ otxn' = [otxn EXCEPT ![c] = FALSE]
  /\ ofault' = [ofault EXCEPT ![c] = FALSE]
  /\ ocommit' = [ocommit EXCEPT ![c] = 0]
  /\ orollback' = [orollback EXCEPT ![c] = 0]
  /\ orelease' = [orelease EXCEPT ![c] = 0]
  /\ ores' = [ores EXCEPT ![c] = "none"]
  /\ UNCHANGED otherThanOut

\* pool.connect(), before the try block: a rejection leaves nothing to release
LookupConnect(c, ok) ==
  /\ opc[c] = "connect"
  /\ opc' = [opc EXCEPT ![c] = IF ok THEN "begin" ELSE "done"]
  /\ ores' = [ores EXCEPT ![c] = IF ok THEN "none" ELSE "error"]
  /\ LookupFault(c, ok)
  /\ UNCHANGED <<okind, oarg, oseen, otxn, ocommit, orollback, orelease>>
  /\ UNCHANGED otherThanOut

\* BEGIN, setLocalRlsRole, SET LOCAL app.is_superadmin, set_config(app.current_company_id)
LookupStatement(c, ok) ==
  /\ opc[c] \in SetupStatements
  /\ LookupFault(c, ok)
  /\ otxn' = [otxn EXCEPT ![c] = @ \/ (ok /\ opc[c] = "begin")]
  /\ IF ~ok THEN LookupThrows(c, "error")
     ELSE IF AfterStatement(okind[c], oarg[c], opc[c]) = "throw"
     THEN LookupThrows(c, "Unauthorized")
     ELSE /\ opc' = [opc EXCEPT ![c] = AfterStatement(okind[c], oarg[c], opc[c])]
          /\ UNCHANGED ores
  /\ UNCHANGED <<okind, oarg, oseen, ocommit, orollback, orelease>>
  /\ UNCHANGED otherThanOut

\* findByUsername: findAuthSeedByUsername under the bypass; without a seed
\* the not-found path, with one the scope of the seed is bound
LookupFindSeed(c, ok, seed) ==
  /\ opc[c] = "findSeed"
  /\ LookupFault(c, ok)
  /\ IF ~ok THEN LookupThrows(c, "error") /\ UNCHANGED oseen
     ELSE /\ oseen' = [oseen EXCEPT ![c] = seed]
          /\ IF seed = "noscope" THEN LookupThrows(c, "Unauthorized")
             ELSE /\ opc' = [opc EXCEPT ![c] = IF seed = "none" THEN "notFound" ELSE "sa2"]
                  /\ UNCHANGED ores
  /\ UNCHANGED <<okind, oarg, otxn, ocommit, orollback, orelease>>
  /\ UNCHANGED otherThanOut

\* findByUsername, `if (!seed) { await client.query('ROLLBACK'); return null; }`
LookupNotFoundRollback(c, ok) ==
  /\ opc[c] = "notFound"
  /\ LookupFault(c, ok)
  /\ orollback' = [orollback EXCEPT ![c] = @ + 1]
  /\ otxn' = [otxn EXCEPT ![c] = FALSE]
  /\ IF ok THEN /\ opc' = [opc EXCEPT ![c] = "release"]
                /\ ores' = [ores EXCEPT ![c] = "null"]
     ELSE LookupThrows(c, "error")
  /\ UNCHANGED <<okind, oarg, oseen, ocommit, orelease>>
  /\ UNCHANGED otherThanOut

\* the SELECT inside ctx.run
LookupFind(c, ok, found) ==
  /\ opc[c] = "find"
  /\ found \in LookupResults(okind[c], oarg[c])
  /\ LookupFault(c, ok)
  /\ IF ~ok THEN LookupThrows(c, "error") /\ UNCHANGED oseen
     ELSE /\ oseen' = [oseen EXCEPT ![c] = found]
          /\ opc' = [opc EXCEPT ![c] = "commit"]
          /\ UNCHANGED ores
  /\ UNCHANGED <<okind, oarg, otxn, ocommit, orollback, orelease>>
  /\ UNCHANGED otherThanOut

\* COMMIT, then the return; pickSeed without companyId throws BadRequest after
\* its COMMIT when more than one seed was found
LookupCommit(c, ok) ==
  /\ opc[c] = "commit"
  /\ LookupFault(c, ok)
  /\ ocommit' = [ocommit EXCEPT ![c] = @ + 1]
  /\ otxn' = [otxn EXCEPT ![c] = FALSE]
  /\ IF ~ok THEN LookupThrows(c, "error")
     ELSE IF AmbiguousUsername(okind[c], oarg[c], oseen[c])
     THEN LookupThrows(c, "BadRequest")
     ELSE /\ opc' = [opc EXCEPT ![c] = "release"]
          /\ ores' = [ores EXCEPT ![c] = IF oseen[c] = "none" THEN "null" ELSE "found"]
  /\ UNCHANGED <<okind, oarg, oseen, orollback, orelease>>
  /\ UNCHANGED otherThanOut

\* catch (error) { await client.query('ROLLBACK'); throw error; }: a ROLLBACK
\* that is rejected replaces the error
LookupCatch(c, ok) ==
  /\ opc[c] = "catch"
  /\ LookupFault(c, ok)
  /\ orollback' = [orollback EXCEPT ![c] = @ + 1]
  /\ otxn' = [otxn EXCEPT ![c] = FALSE]
  /\ opc' = [opc EXCEPT ![c] = "release"]
  /\ ores' = [ores EXCEPT ![c] = IF ok THEN @ ELSE "error"]
  /\ UNCHANGED <<okind, oarg, oseen, ocommit, orelease>>
  /\ UNCHANGED otherThanOut

\* finally { client.release(); }
LookupRelease(c) ==
  /\ opc[c] = "release"
  /\ orelease' = [orelease EXCEPT ![c] = @ + 1]
  /\ opc' = [opc EXCEPT ![c] = "done"]
  /\ UNCHANGED <<okind, oarg, oseen, otxn, ofault, ocommit, orollback, ores>>
  /\ UNCHANGED otherThanOut

NextOut ==
  \E c \in Lookups :
    \/ \E kind \in LookupKinds, arg \in {"none", "company", "superadmin", "noscope"} :
         LookupCall(c, kind, arg)
    \/ \E ok \in BOOLEAN :
         \/ LookupConnect(c, ok)
         \/ LookupStatement(c, ok)
         \/ \E seed \in {"none", "superadmin", "company", "noscope"} : LookupFindSeed(c, ok, seed)
         \/ LookupNotFoundRollback(c, ok)
         \/ \E found \in {"none", "one", "many"} : LookupFind(c, ok, found)
         \/ LookupCommit(c, ok)
         \/ LookupCatch(c, ok)
    \/ LookupRelease(c)

Init == InitTok /\ InitBal /\ InitReq /\ InitInv /\ InitGuard /\ InitCancel /\ InitBranch /\ InitPolicy /\ InitQueue /\ InitDrv /\ InitOut

\* each part is explored on its own; the other parts stay idle in a fixed state
IdleTok == InitTok
IdleBal ==
  /\ bal = NoBal
  /\ InitBal
IdleReq ==
  /\ atype = "web"
  /\ actor = NoRow
  /\ InitReq
IdleInv ==
  /\ InitInv
  /\ invite.expiresAt = NULL
  /\ musers = <<>>
IdleGuard == InitGuard
IdleCancel == InitCancel
IdleOut == InitOut
IdleDrv == InitDrv
IdleQueue == InitQueue
IdlePolicy == InitPolicy
IdleBranch ==
  /\ InitBranch
  /\ vehicles = {}

InitTokOnly == InitTok /\ IdleBal /\ IdleReq /\ IdleInv /\ IdleGuard /\ IdleCancel /\ IdleBranch /\ IdlePolicy /\ IdleQueue /\ IdleDrv /\ IdleOut

SpecTok == InitTokOnly /\ [][NextTok]_vars

InitBalOnly == InitBal /\ IdleTok /\ IdleReq /\ IdleInv /\ IdleGuard /\ IdleCancel /\ IdleBranch /\ IdlePolicy /\ IdleQueue /\ IdleDrv /\ IdleOut

SpecBal == InitBalOnly /\ [][NextBal]_vars

InitReqOnly == InitReq /\ IdleTok /\ IdleBal /\ IdleInv /\ IdleGuard /\ IdleCancel /\ IdleBranch /\ IdlePolicy /\ IdleQueue /\ IdleDrv /\ IdleOut

SpecReq == InitReqOnly /\ [][NextReq]_vars

InitInvOnly == InitInv /\ IdleTok /\ IdleBal /\ IdleReq /\ IdleGuard /\ IdleCancel /\ IdleBranch /\ IdlePolicy /\ IdleQueue /\ IdleDrv /\ IdleOut

SpecInv == InitInvOnly /\ [][NextInv]_vars

InitGuardOnly == InitGuard /\ InitReq /\ IdleTok /\ IdleBal /\ IdleInv /\ IdleCancel /\ IdleBranch /\ IdlePolicy /\ IdleQueue /\ IdleDrv /\ IdleOut

SpecGuard == InitGuardOnly /\ [][NextGuard]_vars

\* cancellation: transactional requests of one tenant user, with clients that
\* may go away at any point of a request
InitCancelOnly ==
  /\ InitReq
  /\ atype = "web"
  /\ actor = [found |-> TRUE, deleted |-> FALSE, companyId |-> "A", isSuperAdmin |-> FALSE]
  /\ InitCancel /\ IdleTok /\ IdleBal /\ IdleInv /\ IdleGuard /\ IdleBranch /\ IdlePolicy /\ IdleQueue /\ IdleDrv /\ IdleOut

NextCancel ==
  \/ \E r \in Reqs : \E user \in JwtUsers : intercept(r, user)
  \/ \E r \in Reqs : \E k \in Conns : Connect(r, k)
  \/ \E r \in Reqs : ConnectFail(r)
  \/ \E r \in Reqs : \E ok \in BOOLEAN : Begin(r, ok)
  \/ \E r \in Reqs : \E ok \in BOOLEAN : SetRole(r, ok)
  \/ \E r \in Reqs : \E ok \in BOOLEAN : RefreshSetSuperadmin(r, ok)
  \/ \E r \in Reqs : \E ok \in BOOLEAN : RefreshSetCompany(r, ok)
  \/ \E r \in Reqs : \E ok \in BOOLEAN : refreshUserContext(r, ok)
  \/ \E r \in Reqs : \E ok \in BOOLEAN : RlsSetSuperadmin(r, ok)
  \/ \E r \in Reqs : \E ok \in BOOLEAN : RlsSetCompany(r, ok)
  \/ \E r \in Reqs : \E co \in Companies : HandlerQuery(r, co)
  \/ \E r \in Reqs : HandlerComplete(r)
  \/ \E r \in Reqs : HandlerError(r)
  \/ \E r \in Reqs : \E ok \in BOOLEAN : commit(r, ok)
  \/ \E r \in Reqs : \E ok \in BOOLEAN : rollback(r, ok)
  \/ \E r \in Reqs : \E ok \in BOOLEAN : SetupRollback(r, ok)
  \/ \E r \in Reqs : Release(r)
  \/ \E r \in Reqs : Cancel(r)

\* the handler's stream ends, and every awaited statement of the teardown is
\* answered: the callbacks of runWithTransaction run to their end
HandlerEnds(r) == HandlerComplete(r) \/ HandlerError(r)
TearDownStep(r) ==
  \/ \E ok \in BOOLEAN : commit(r, ok)
  \/ \E ok \in BOOLEAN : rollback(r, ok)
  \/ Release(r)
FairCancel ==
  \A r \in Reqs : WF_vars(HandlerEnds(r)) /\ WF_vars(TearDownStep(r))

SpecCancel == InitCancelOnly /\ [][NextCancel]_vars /\ FairCancel

InitBranchOnly == InitBranch /\ IdleTok /\ IdleBal /\ IdleReq /\ IdleInv /\ IdleGuard /\ IdleCancel /\ IdlePolicy /\ IdleQueue /\ IdleDrv /\ IdleOut

SpecBranch == InitBranchOnly /\ [][NextBranch]_vars

InitPolicyOnly == InitPolicy /\ IdleTok /\ IdleBal /\ IdleReq /\ IdleInv /\ IdleGuard /\ IdleCancel /\ IdleBranch /\ IdleQueue /\ IdleDrv /\ IdleOut

SpecPolicy == InitPolicyOnly /\ [][NextPolicy]_vars

InitQueueOnly == InitQueue /\ IdleTok /\ IdleBal /\ IdleReq /\ IdleInv /\ IdleGuard /\ IdleCancel /\ IdleBranch /\ IdlePolicy /\ IdleDrv /\ IdleOut

SpecQueue == InitQueueOnly /\ [][NextQueue]_vars

InitDrvOnly == InitDrv /\ IdleTok /\ IdleBal /\ IdleReq /\ IdleInv /\ IdleGuard /\ IdleCancel /\ IdleBranch /\ IdlePolicy /\ IdleQueue /\ IdleOut

SpecDrv == InitDrvOnly /\ [][NextDrv]_vars

InitOutOnly == InitOut /\ IdleTok /\ IdleBal /\ IdleReq /\ IdleInv /\ IdleGuard /\ IdleCancel /\ IdleBranch /\ IdlePolicy /\ IdleQueue /\ IdleDrv

SpecOut == InitOutOnly /\ [][NextOut]_vars

Next == NextTok \/ NextBal \/ NextReq \/ NextInv \/ NextGuard \/ NextCancel \/ NextBranch \/ NextPolicy \/ NextQueue \/ NextDrv \/ NextOut

Spec == Init /\ [][Next]_vars

(***************************************************************************)
(* Claims about refresh tokens                                             *)
(***************************************************************************)

\* a rotateRefreshToken call of p gets its answer in this step
TokCompletes(p) == tpc[p] \notin TokDone /\ tpc'[p] \in TokDone

\* C1: once rotateRefreshToken(T) has succeeded, a later rotateRefreshToken(T)
\* (and one of any token its family revocation killed, such as the successor T')
\* ends Unauthorized, issues no token, and at its end every row of T's family
\* is revoked.
C1_ReuseRevokesFamily ==
  [][\A p \in TokProcs :
       (TokCompletes(p) /\ tlate'[p]) =>
          /\ tpc'[p] = "Unauthorized"
          /\ Len(tokens') = Len(tokens)
          /\ \A i \in DOMAIN tokens' :
               tokens'[i].familyId = tokens'[targ'[p]].familyId => tokens'[i].isRevoked]_vars

\* C1 witness: a replay of a rotated token T was answered, and T's successor is revoked
C1_Witness ==
  \E p \in TokProcs :
    /\ tpc[p] = "Unauthorized" /\ tlate[p] /\ targ[p] \in rotated
    /\ \E i \in TokIds : tokens[i].parent = targ[p] /\ tokens[i].isRevoked /\ i \in killed

(***************************************************************************)
(* Claims about the company balance                                        *)
(***************************************************************************)

BalStarted == {t \in BalReqs : bpc[t] # "idle"}
BalQuiescent == \A t \in BalReqs : bpc[t] \in {"idle", "done"}
BalWith(outcome) == {t \in BalReqs : bres[t] = outcome}

\* N requests, each a consume('mission_create') whose request commits unless the
\* consume itself failed, have all ended on a per_missions balance that started
\* with remaining = M
C2_Scenario ==
  /\ binit.type = PER_MISSIONS
  /\ ~IsNull(binit.remaining)
  /\ BalQuiescent
  /\ \A t \in BalStarted : bop[t].kind = "mission_create" /\ bres[t] # "error"

\* C2: N concurrent consume('mission_create') on remaining = M give exactly
\* min(N, M) successes, N - min(N, M) BALANCE_EXCEEDED conflicts, and leave
\* remaining = M - min(N, M).
C2_BalanceAtomicity ==
  C2_Scenario =>
    LET N == Cardinality(BalStarted)
        M == Val(binit.remaining)
    IN /\ Cardinality(BalWith("ok")) = Min2(N, M)
       /\ Cardinality(BalWith("BALANCE_EXCEEDED")) = N - Min2(N, M)
       /\ bal.remaining = Some(M - Min2(N, M))

\* C2 witness: more consumers than units: one was refused and remaining is 0
C2_Witness ==
  /\ C2_Scenario
  /\ Cardinality(BalStarted) >= 2
  /\ Val(binit.remaining) = 1
  /\ Cardinality(BalWith("ok")) = 1
  /\ BalWith("BALANCE_EXCEEDED") # {}
  /\ bal.remaining = Some(0)

RemainingOK(row) == row = NoBal \/ IsNull(row.remaining) \/ Val(row.remaining) >= 0

\* C3: under every interleaving of consume('mission_create'),
\* consume('vehicle_create') and purchases, remaining is null or >= 0, in the
\* committed row and in every uncommitted version of it.
C3_RemainingNeverNegative == RemainingOK(bal) /\ RemainingOK(bdirty)

\* C3 witness: consumes of both kinds and a purchase have committed and the
\* balance stands at 0
C3_Witness ==
  /\ bal # NoBal
  /\ bal.remaining = Some(0)
  /\ \E t \in BalReqs : bres[t] = "ok" /\ bop[t].kind = "purchase"
  /\ \E t \in BalReqs : bres[t] = "ok" /\ bop[t].kind = "vehicle_create"
       /\ bal.type = PER_VEHICLES_PER_MONTH

(***************************************************************************)
(* Claims about the request pipeline                                       *)
(***************************************************************************)

HeldBy(r) == {k \in Conns : conns[k].holder = r}
Ended(r) == ncommit[r] + nrollback[r]
\* positions at which the request holds its connection in an open transaction
Holding ==
  {"begin", "setRole", "refreshSuperadmin", "refreshCompany", "refreshSelect",
   "rlsSuperadmin", "rlsCompany", "handler", "commit", "rollback", "setupRollback"}

\* C4: for every request that acquired a pooled connection, exactly one COMMIT
\* or ROLLBACK is issued, once, and the connection is released exactly once and
\* only after it; for setup failure, handler error and handler completion.
C4_TearDown ==
  \A r \in Reqs :
    /\ rconn[r] = 0 => Ended(r) = 0 /\ nrelease[r] = 0 /\ HeldBy(r) = {}
    /\ rpc[r] \in Holding =>
         Ended(r) = 0 /\ nrelease[r] = 0 /\ HeldBy(r) = {rconn[r]}
    /\ rpc[r] = "release" =>
         Ended(r) = 1 /\ nrelease[r] = 0 /\ HeldBy(r) = {rconn[r]}
    /\ (rpc[r] = "done" /\ rconn[r] # 0) =>
         Ended(r) = 1 /\ nrelease[r] = 1 /\ HeldBy(r) = {}

\* C4 witness: one request ended by COMMIT after its handler completed, another
\* by ROLLBACK after a failed setup, both released
C4_Witness ==
  \E r1, r2 \in Reqs :
    /\ rpc[r1] = "done" /\ rres[r1] = "ok" /\ ncommit[r1] = 1 /\ nrelease[r1] = 1
    /\ rpc[r2] = "done" /\ ~rran[r2] /\ nrollback[r2] = 1 /\ nrelease[r2] = 1

\* the actor row the refresh of r selected was that of a live, non-superadmin
\* user of company co
StoredTenant(r, co) ==
  /\ Len(rrow[r]) = 1
  /\ rrow[r][1].found /\ ~rrow[r][1].deleted
  /\ ~rrow[r][1].isSuperAdmin
  /\ rrow[r][1].companyId = co

\* C5: when the stored company of a non-superadmin user is A and the token
\* claims another company, the handler runs with context companyId = A and
\* app.current_company_id = A, and every row it can read or write is of A.
C5_TenantIsolation ==
  \A r \in Reqs : \A A \in Companies :
    (rpc[r] = "handler" /\ StoredTenant(r, A) /\ ruser[r].companyId # A) =>
       /\ rdata[r].companyId = A
       /\ Conn(r).loc.co = A
       /\ \A co \in Companies : Allowed(Conn(r), co) => co = A
       /\ rlast[r] \in {NoCompany, A}

\* C5 witness: a token claiming B, a user stored in A, and the handler has
\* touched a row of A
C5_Witness ==
  \E r \in Reqs :
    /\ rpc[r] = "handler" /\ StoredTenant(r, "A")
    /\ ruser[r].companyId = "B" /\ ~ruser[r].isSuperAdmin
    /\ rlast[r] = "A"

\* C6: when the stored isSuperAdmin is false, the handler's transaction runs
\* with app.is_superadmin = 'false' and app.current_company_id = the stored
\* company, whatever the token claims; the 'true' of the refresh phase is not
\* in force when the handler executes.
C6_ContextRefresh ==
  \A r \in Reqs :
    (rpc[r] = "handler" /\ Len(rrow[r]) = 1 /\ ~rrow[r][1].isSuperAdmin) =>
       /\ ~rdata[r].isSuperAdmin
       /\ Conn(r).loc.role = RLS_DB_ROLE
       /\ Conn(r).loc.sa = "false"
       /\ Conn(r).loc.co = rrow[r][1].companyId

\* C6 witness: the flag was taken away from the user, and a request with a token
\* that still claims it is in its handler
C6_Witness ==
  \E r \in Reqs :
    /\ rpc[r] = "handler"
    /\ ruser[r].isSuperAdmin
    /\ Len(rrow[r]) = 1 /\ ~rrow[r][1].isSuperAdmin
    /\ adminOps = 1 /\ ~actor.isSuperAdmin
    /\ Conn(r).loc.sa = "false"

SettingNames == {"role", "sa", "co"}

\* C7: a connection in the pool carries no role and no session variable of the
\* request that used it, and the settings in force on a held connection were
\* set by its holder or by nobody.
C7_NoLeakThroughPool ==
  \A k \in Conns :
    /\ conns[k].sess = DefaultSettings
    /\ conns[k].holder = 0 => conns[k].loc = DefaultSettings /\ ~conns[k].intxn
    /\ \A f \in SettingNames :
         /\ conns[k].by[f] \in {0, conns[k].holder}
         /\ conns[k].by[f] = 0 => conns[k].loc[f] = DefaultSettings[f]

\* C7 witness: a request is in its handler on the connection on which another
\* request ran its handler before
C7_Witness ==
  \E r1, r2 \in Reqs :
    /\ r1 # r2
    /\ rpc[r1] = "done" /\ rran[r1] /\ nrelease[r1] = 1
    /\ rpc[r2] = "handler" /\ rconn[r2] = rconn[r1]
    /\ Conn(r2).by = [role |-> r2, sa |-> r2, co |-> r2]

\* the actor row the refresh of r selected is missing or soft-deleted
ActorGone(r) == Len(rrow[r]) = 1 /\ (~rrow[r][1].found \/ rrow[r][1].deleted)

\* C10: when the selected actor row is missing or soft-deleted, the request
\* fails with Unauthorized, the handler is never run, the transaction is rolled
\* back and the connection released.
C10_MissingActor ==
  \A r \in Reqs :
    ActorGone(r) =>
      /\ ~rran[r]
      /\ ncommit[r] = 0
      /\ rpc[r] \in {"setupRollback", "release", "done"}
      /\ rpc[r] = "setupRollback" => rerr[r] = "Unauthorized"
      /\ rpc[r] = "release" => rerr[r] = "Unauthorized" /\ nrollback[r] = 1
      /\ rpc[r] = "done" =>
           /\ rres[r] = "Unauthorized"
           /\ nrollback[r] = 1 /\ nrelease[r] = 1
           /\ HeldBy(r) = {}

\* C10 witness: a request of a soft-deleted actor was answered Unauthorized
C10_Witness ==
  \E r \in Reqs :
    /\ rpc[r] = "done" /\ Len(rrow[r]) = 1 /\ rrow[r][1].found /\ rrow[r][1].deleted
    /\ rres[r] = "Unauthorized" /\ nrollback[r] = 1 /\ nrelease[r] = 1

(***************************************************************************)
(* Claims about invite registration                                        *)
(***************************************************************************)

RegSucceeded == {p \in Regs : ierr[p] = "ok"}
CreatedFromInvite == {i \in DOMAIN musers : musers[i].by # 0}

\* C8: under any interleaving of registerWithInviteCode calls presenting the
\* invite's code, at most one call succeeds and at most one mobile user is
\* created from the invite; a call that starts after a registration has
\* committed fails with BadRequest.
C8_InviteSingleUse ==
  /\ Cardinality(RegSucceeded) <= 1
  /\ Cardinality(CreatedFromInvite) <= 1
  /\ \A p \in Regs :
       (ilate[p] /\ ipc[p] = "done" /\ ~ifault[p]) => ires[p] = "BadRequest"

\* p's COMMIT succeeds in this step
RegCommits(p) == ipc[p] = "commit" /\ ierr'[p] = "ok"

\* C9: a registration that fails at any step leaves mobile_user and the invite
\* as they were; one that succeeds makes the new mobile_user row and the
\* invite's usedAt and usedByMobileUserId = new id visible in one step.
C9_RegistrationAtomic ==
  [][/\ \/ \E p \in Regs :
             /\ RegCommits(p)
             /\ musers' = Append(musers, icreated[p])
             /\ icreated[p].id # NoId
             /\ invite'.usedByMobileUserId = icreated[p].id
             /\ ~IsNull(invite'.usedAt) /\ Val(invite'.usedAt) <= inow
        \/ UNCHANGED <<musers, invite>>
     /\ \A p \in Regs :
          (ipc'[p] = "done" /\ ires'[p] # "ok") =>
             \A i \in DOMAIN musers' : musers'[i].by # p]_vars

\* C9 witness: a call lost its inserted row and its invite update to a rollback,
\* and a call has committed both
C9_Witness ==
  /\ \E p \in Regs :
       /\ ipc[p] = "done" /\ ires[p] = "error" /\ iundone[p] = 2
       /\ \A i \in DOMAIN musers : musers[i].by # p
  /\ \E q \in Regs :
       /\ ires[q] = "ok"
       /\ \E i \in DOMAIN musers :
            musers[i].by = q /\ invite.usedByMobileUserId = musers[i].id

(***************************************************************************)
(* Claims about the authorization guard                                    *)
(***************************************************************************)

\* the guard has decided for request r
Guarded(r) == gpc[r] = "done"

\* C11: the guard does not take the superadmin allow rule for a user whose
\* stored isSuperAdmin is false when the guard decides, whatever the token
\* claims: the superadmin rule is taken only with the stored flag set.
C11_NoStalePrivilege ==
  \A r \in GuardReqs :
    (Guarded(r) /\ gres[r] = "superadmin") => gflag[r]

\* C14: the guard allows a request exactly when the required set is empty, or
\* the actor is superadmin, or a mobile actor reads or updates itself
\* (findOne / update with params.id = userId), or every required permission is
\* among the actor's permissions; otherwise it fails with Forbidden.
C14_GuardDecision ==
  \A r \in GuardReqs :
    Guarded(r) =>
      LET user == guser[r]
          route == groute[r][1]
          permissions == IF user.role = NoRole THEN {} ELSE user.role[1]
          allowed ==
            \/ route.required = {}
            \/ user.isSuperAdmin
            \/ /\ user.actorType = "mobile"
               /\ route.name \in {"findOne", "update"}
               /\ route.id = user.userId
            \/ \A p \in route.required : p \in permissions
      IN /\ gres[r] \in GuardRules \cup {"Forbidden"}
         /\ allowed <=> gres[r] \in GuardRules

\* C14 witness: one request was allowed by its permissions alone and another,
\* holding only part of the required permissions, was refused
C14_Witness ==
  \E r1, r2 \in GuardReqs :
    /\ Guarded(r1) /\ gres[r1] = "permissions"
    /\ Guarded(r2) /\ gres[r2] = "Forbidden"
    /\ guser[r2].role # NoRole
    /\ groute[r2][1].required \cap guser[r2].role[1] # {}

(***************************************************************************)
(* Claims about cancellation                                               *)
(***************************************************************************)

\* the client of request r went away while the handler was running
CancelledInHandler(r) == rcancel[r] = "handler"

\* the transaction of r is over and its connection is back in the pool
TornDown(r) ==
  /\ rpc[r] = "done"
  /\ Ended(r) = 1 /\ nrelease[r] = 1
  /\ HeldBy(r) = {}
  /\ ~conns[rconn[r]].intxn \/ conns[rconn[r]].holder # 0

\* C12, as stated: a request whose client disconnects while its handler runs
\* is eventually rolled back (ROLLBACK, no COMMIT) and its connection released.
C12_CancelRollsBack ==
  \A r \in Reqs :
    CancelledInHandler(r) ~> (TornDown(r) /\ nrollback[r] = 1 /\ ncommit[r] = 0)

\* C12, amended: a request whose client disconnects while its handler runs
\* goes on as if nothing had happened: once the handler ends, the transaction
\* is ended by exactly one COMMIT (handler completed) or ROLLBACK (handler
\* failed) and the connection is released once; it never stays checked out.
C12_CancelledRunsToTheEnd ==
  \A r \in Reqs : CancelledInHandler(r) ~> TornDown(r)

\* C12 witness: a request cancelled in its handler was committed and released
C12_Witness ==
  \E r \in Reqs :
    /\ CancelledInHandler(r) /\ TornDown(r)
    /\ ncommit[r] = 1 /\ nrollback[r] = 0 /\ rres[r] = "ok"

(***************************************************************************)
(* Claims about branch narrowing                                           *)
(***************************************************************************)

\* the context of list query r may filter on any branch
CanFilterAnyBranch(r) == lctx[r].isSuperAdmin \/ lctx[r].roleName = "companyAdmin"

\* C13: getEffectiveBranchId(q) is q (possibly absent: all branches) for a
\* superadmin or companyAdmin context and the context's own branchId, whatever
\* q is, for every other actor; so a non-admin list query with branchId = Y
\* returns rows of the actor's branch X only, never filtered on Y.
C13_BranchNarrowing ==
  \A r \in ListQueries :
    lpc[r] = "done" =>
      /\ CanFilterAnyBranch(r) => leff[r] = lq[r]
      /\ ~CanFilterAnyBranch(r) =>
           /\ leff[r] = lctx[r].branchId
           /\ lctx[r].branchId \in Branches =>
                lrows[r] = {v \in vehicles : ~v.deleted /\ v.branchId = lctx[r].branchId}

\* C13 witness: an actor of branch X that is no admin asked for branch Y, which
\* holds a live vehicle, and got the vehicles of X
C13_Witness ==
  \E r \in ListQueries :
    /\ lpc[r] = "done" /\ ~CanFilterAnyBranch(r)
    /\ lctx[r].branchId = "X" /\ lq[r] = "Y"
    /\ \E v \in vehicles : ~v.deleted /\ v.branchId = "Y"
    /\ lrows[r] # {} /\ \A v \in lrows[r] : v.branchId = "X"

(***************************************************************************)
(* Claims about rotation, families and revocation of refresh tokens        *)
(***************************************************************************)

\* a row with the token's id exists, is not revoked, the presented secret
\* matches its hash and expiresAt > now
ValidToken(tok) ==
  /\ tok.id \in TokIds
  /\ ~tokens[tok.id].isRevoked
  /\ Compare(tok.secret, tokens[tok.id].tokenHash)
  /\ tokens[tok.id].expiresAt > now

\* C15: rotateRefreshToken(token) goes on to invalidate the row and issue a
\* successor if and only if the token is valid (row exists, not revoked,
\* secret matches, expiresAt > now); in every other case it fails with
\* Unauthorized, issues no token and changes no row, except that for a revoked
\* row it revokes the rows of the family.
C15_RotateIffValid ==
  [][\A p \in TokProcs :
       /\ \A tok \in PresentedTokens :
            RotateSelect(p, tok) =>
              /\ ValidToken(tok) <=> tpc'[p] = "invalidate"
              /\ ~ValidToken(tok) => tpc'[p] \in {"Unauthorized", "revokeFamily"}
              /\ tpc'[p] = "revokeFamily" =>
                   tok.id \in TokIds /\ tokens[tok.id].isRevoked
       /\ (tpc[p] = "revokeFamily" /\ tpc'[p] # "revokeFamily") =>
            /\ tpc'[p] = "Unauthorized"
            /\ Len(tokens') = Len(tokens)
            /\ \A i \in TokIds :
                 tokens[i].familyId # tstored[p].familyId => tokens'[i] = tokens[i]
       /\ (tpc[p] = "issue" /\ tpc'[p] # "issue") =>
            /\ tpc'[p] = "rotated"
            /\ Len(tokens') = Len(tokens) + 1
            /\ tokens'[Len(tokens')].parent = targ[p]
            /\ tokens'[targ[p]].isRevoked]_vars

\* the token a chain of rotations started from
RECURSIVE Root(_)
Root(i) == IF tokens[i].parent = NoId THEN i ELSE Root(tokens[i].parent)

\* C16: a token issued by rotateRefreshToken carries the familyId and the owner
\* (userId / mobileUserId) of the token it replaces, so every token has the
\* family of the login its chain started from; each login starts a family of
\* its own.
C16_FamilyPreserved ==
  /\ \A i \in TokIds :
       tokens[i].parent # NoId =>
         /\ tokens[i].parent \in TokIds
         /\ tokens[i].familyId = tokens[tokens[i].parent].familyId
         /\ tokens[i].owner = tokens[tokens[i].parent].owner
         /\ tokens[i].familyId = tokens[Root(i)].familyId
  /\ \A i, j \in TokIds :
       (i # j /\ tokens[i].parent = NoId /\ tokens[j].parent = NoId) =>
          tokens[i].familyId # tokens[j].familyId

\* C16 witness: issue, rotate, rotate: three tokens of one family
C16_Witness ==
  \E i, j, k \in TokIds :
    /\ tokens[i].parent = NoId /\ tokens[j].parent = i /\ tokens[k].parent = j
    /\ tokens[j].familyId = tokens[i].familyId
    /\ tokens[k].familyId = tokens[i].familyId

\* C17: revokeRefreshToken(T) raises no error, whatever T is; it changes no row
\* but T's, which it leaves revoked; on a row already revoked (a second call)
\* it changes nothing.
C17_RevokeIdempotent ==
  [][\A p \in TokProcs : \A tok \in PresentedTokens :
       revokeRefreshToken(p, tok) =>
         /\ tpc'[p] = "revoked"
         /\ Len(tokens') = Len(tokens)
         /\ \A i \in TokIds :
              tokens'[i] = IF i = tok.id /\ ~Malformed(tok)
                           THEN [tokens[i] EXCEPT !.isRevoked = TRUE]
                           ELSE tokens[i]
         /\ (tok.id \in TokIds /\ tokens[tok.id].isRevoked) => tokens' = tokens]_vars


(***************************************************************************)
(* consume with an action that does not match the balance type             *)
(***************************************************************************)

\* what getOrInit returns for a row: the row, or the default row it inserts
getOrInitResult(row) == IF row = NoBal THEN DefaultBal ELSE row

\* request t is a consume whose action does not match the type of the row
\* that getOrInit returned to it
Mismatched(t) ==
  /\ bcur[t] # NoBal
  /\ \/ bop[t].kind = "mission_create" /\ bcur[t].type = PER_VEHICLES_PER_MONTH
     \/ bop[t].kind = "vehicle_create" /\ bcur[t].type = PER_MISSIONS

\* C18: a consume whose action does not match the current balance type
\* returns without error and without a write: the committed row, the row
\* versions and the purchase log stay as they are, through the request's
\* commit too.  (When the company has no row yet, getOrInit has inserted the
\* default row first, which is what every reader is given for a missing row.)
C18_MismatchIsNoOp ==
  [][\A t \in BalReqs :
       /\ (bpc[t] \in {"idle", "insert"} /\ bpc'[t] # bpc[t] /\ Mismatched(t)') =>
            /\ bpc'[t] = "finish"
            /\ bres'[t] = "none"
            /\ bal' = bal
            /\ purchases' = purchases
            /\ bpc[t] = "idle" => (bowner' = bowner /\ bdirty' = bdirty)
            /\ bpc[t] = "insert" => (bowner' = t /\ bdirty' = DefaultBal /\ bal = NoBal)
       /\ (bpc[t] = "finish" /\ bpc'[t] # "finish" /\ Mismatched(t)) =>
            /\ bres'[t] \in {"ok", "error"}
            /\ getOrInitResult(bal') = getOrInitResult(bal)
            /\ bowner # t => bal' = bal
            /\ purchases' = purchases]_vars

\* C18 witness: both mismatches have returned and committed, the row as it was
C18_Witness ==
  \E t, u \in BalReqs :
    /\ bop[t].kind = "mission_create" /\ bcur[t].type = PER_VEHICLES_PER_MONTH
    /\ bop[u].kind = "vehicle_create" /\ bcur[u].type = PER_MISSIONS
    /\ bcur[u] = binit
    /\ bres[t] = "ok" /\ bres[u] = "ok"
    /\ bal = bcur[t]


(***************************************************************************)
(* The row-level policy                                                    *)
(***************************************************************************)

\* the claim's condition for a row with that companyId under the settings
FlagTrue(settings) == settings.sa = "true"
CompanyMatches(settings, companyId) ==
  /\ settings.co \notin {Unset, ""}
  /\ ~IsNull(companyId)
  /\ Val(companyId) = settings.co

\* C19: under the restricted role a row is returned by SELECT, accepted by
\* INSERT, and updated or deleted, if and only if app.is_superadmin is 'true'
\* or the row's companyId equals a non-empty app.current_company_id.  So with
\* the flag not 'true' no row of another tenant is ever seen, whatever the
\* company setting is (unset, empty, the nil uuid, another company), and with
\* the flag 'true' every row is.
C19_RowLevelPolicy ==
  [][/\ PolicySelect =>
          /\ pseen' = {id \in PolicyRows :
                         FlagTrue(psess) \/ CompanyMatches(psess, ptable[id])}
          /\ FlagTrue(psess) => pseen' = PolicyRows
          /\ ~FlagTrue(psess) =>
               \A id \in pseen' : ptable[id] = Some(psess.co)
     /\ \A id \in PolicyRowIds : \A co \in CompanyIdColumn :
          /\ PolicyInsert(id, co) =>
               IF FlagTrue(psess) \/ CompanyMatches(psess, co)
               THEN ptable' = [ptable EXCEPT ![id] = co]
               ELSE ptable' = ptable /\ pres' = "violation"
          /\ PolicyUpdate(id, co) =>
               IF /\ id \in PolicyRows
                  /\ FlagTrue(psess) \/ CompanyMatches(psess, ptable[id])
                  /\ FlagTrue(psess) \/ CompanyMatches(psess, co)
               THEN ptable' = [ptable EXCEPT ![id] = co]
               ELSE ptable' = ptable
     /\ \A id \in PolicyRowIds :
          PolicyDelete(id) =>
            IF id \in PolicyRows /\ (FlagTrue(psess) \/ CompanyMatches(psess, ptable[id]))
            THEN ptable' = [ptable EXCEPT ![id] = NoPolicyRow]
            ELSE ptable' = ptable]_vars

\* C19 witness: a table with rows of two tenants, read under company A with
\* the flag 'false': one row is returned and the other is not
C19_Witness ==
  /\ psess = [sa |-> "false", co |-> "A"]
  /\ pres = "selected"
  /\ \E i, j \in PolicyRows :
       /\ ptable[i] = Some("A") /\ ptable[j] = Some("B")
       /\ i \in pseen /\ j \notin pseen


(***************************************************************************)
(* The queue context bridge                                                *)
(***************************************************************************)

\* the session variables the pipeline's setRlsContext binds for a context
PipelineSettings(ctx) ==
  LET data == [isSuperAdmin |-> ~FalsyBoolean(Get(ctx, "isSuperAdmin")),
               companyId |-> IF FalsyString(Get(ctx, "companyId")) THEN NoCompany
                             ELSE ctx["companyId"]]
  IN [role |-> RLS_DB_ROLE, sa |-> RlsSuperadmin(data), co |-> RlsCompany(data)]

\* a context that is neither superadmin nor carries a companyId
NoScope(ctx) ==
  FalsyBoolean(Get(ctx, "isSuperAdmin")) /\ FalsyString(Get(ctx, "companyId"))

\* the handler of a message of publishTenant is running
BridgedHandler == cpc \in {"handler", "handlerNoTransaction"} /\ cmsg.bridged

\* C20: while the handler of a message of publishTenant runs, the context
\* installed for it has the seven fields of the context that was in force at
\* the publish call; it runs in a transaction under the restricted role whose
\* session variables let pass exactly the rows the pipeline's binding for
\* that context lets pass; and publishTenant throws, publishing nothing,
\* exactly when the context is neither superadmin nor carries a companyId.
C20_RoundTrip ==
  /\ [](BridgedHandler =>
          /\ \A k \in KeySet : Get(cstore, k) = Get(cmsg.from, k)
          /\ cpc = "handler"
          /\ cheld
          /\ csess.role = RLS_DB_ROLE
          /\ \A companyId \in CompanyIdColumn :
               Passes(csess, companyId) <=> Passes(PipelineSettings(cmsg.from), companyId))
  /\ [](\A i \in 1..Len(queue) : queue[i].bridged => ~NoScope(queue[i].from))
  /\ [][\A ctx \in StoreValues :
          (NoScope(ctx) /\ publishTenant(ctx)) =>
            (qpub' = "Company context not available" /\ queue' = queue)]_vars

\* C20 witness: the handler runs for a message published under a company
\* user's context with every field set
C20_Witness ==
  /\ BridgedHandler
  /\ \A k \in KeySet : Get(cmsg.from, k) # NULL
  /\ Get(cmsg.from, "companyId") = Some("A")
  /\ Get(cmsg.from, "isSuperAdmin") = Some(FALSE)
  /\ Get(cstore, "branchId") = Some("X")
  /\ csess.co = "A"


(***************************************************************************)
(* Requests without company scope                                          *)
(***************************************************************************)

\* claims of an authenticated user that is no superadmin and has no company
ScopelessClaims(user) ==
  user.userId # NoId /\ ~user.isSuperAdmin /\ user.companyId = NoCompany

\* the refresh of r selected a live row of a non-superadmin without company
ScopelessActor(r) ==
  /\ Len(rrow[r]) = 1
  /\ RowFound(rrow[r][1])
  /\ ~rrow[r][1].isSuperAdmin
  /\ rrow[r][1].companyId = NoCompany

\* C21: a request whose claims are those of a non-superadmin without company
\* is answered Unauthorized by intercept itself: no connection is acquired and
\* the handler is not run.  A request whose refreshed actor is a non-superadmin
\* without company never reaches the handler: it goes through the catch block
\* (one ROLLBACK, no COMMIT, one release) and is answered Unauthorized.
C21_NoCompanyScope ==
  /\ [](\A r \in Reqs :
          ScopelessActor(r) =>
            /\ ~rran[r]
            /\ ncommit[r] = 0
            /\ rpc[r] \in {"setupRollback", "release", "done"}
            /\ rpc[r] # "done" => rerr[r] = "Unauthorized"
            /\ rpc[r] = "done" =>
                 /\ rres[r] = "Unauthorized"
                 /\ nrollback[r] = 1 /\ nrelease[r] = 1
                 /\ HeldBy(r) = {}
                 /\ ~conns[rconn[r]].intxn \/ conns[rconn[r]].holder # 0)
  /\ [][\A r \in Reqs : \A user \in JwtUsers :
          (ScopelessClaims(user) /\ intercept(r, user)) =>
            /\ rres'[r] = "Unauthorized"
            /\ rpc'[r] = "done"
            /\ conns' = conns /\ rconn' = rconn
            /\ ~rran'[r]]_vars

\* C21 witness: both rejections have happened: one request was answered by
\* intercept without a connection, another after the refresh and a ROLLBACK
C21_Witness ==
  \E r, q \in Reqs :
    /\ rpc[r] = "done" /\ rres[r] = "Unauthorized" /\ rconn[r] = 0 /\ rrow[r] = <<>>
    /\ rpc[q] = "done" /\ rres[q] = "Unauthorized" /\ ScopelessActor(q)
    /\ nrollback[q] = 1 /\ nrelease[q] = 1


\* ---------------------------------------------------------------------------
\* C22: at most one active invite per driver
\* ---------------------------------------------------------------------------

\* C22: in every reachable state each driver has at most one driver_invite row
\* with usedAt null, and a createInvite that has found such a row for its
\* driver has answered Conflict.
C22_OneActiveInvite ==
  /\ \A driverId \in Drivers : Cardinality(ActiveInvites(dinv, driverId)) <= 1
  /\ \A c \in InviteCalls :
       (dop[c] = "create" /\ dseen[c] # 0) => (dpc[c] = "done" /\ dres[c] = "Conflict")


\* ---------------------------------------------------------------------------
\* C23: the order of the steps of the transactional path
\* ---------------------------------------------------------------------------

\* what has been done for request r, read from the connection it was given
Acquired(r) == rconn[r] # 0 /\ HeldBy(r) = {rconn[r]}
InTransaction(r) == Acquired(r) /\ Conn(r).intxn
RoleSwitched(r) ==
  InTransaction(r) /\ Conn(r).loc.role = RLS_DB_ROLE /\ Conn(r).by.role = r
ActorRefreshed(r) ==
  rdata[r].userId # NoId =>
    /\ Len(rrow[r]) = 1 /\ RowFound(rrow[r][1])
    /\ rdata[r] = Refreshed(ContextOf(ruser[r]), rrow[r][1])
SessionBound(r) ==
  /\ RoleSwitched(r)
  /\ Conn(r).loc.sa = RlsSuperadmin(rdata[r]) /\ Conn(r).by.sa = r
  /\ Conn(r).loc.co = RlsCompany(rdata[r]) /\ Conn(r).by.co = r

\* C23: in the transactional path each step finds the earlier ones done and
\* the later ones not yet done: BEGIN runs on the acquired connection, SET
\* LOCAL ROLE inside the transaction, the refresh under the switched role, the
\* bind after the refresh, the handler after the bind, COMMIT or ROLLBACK
\* after the handler and once; every statement of the handler runs on the
\* connection of that transaction, with the role switched and the session
\* variables bound by its own request.
C23_PipelineOrder ==
  /\ [](\A r \in Reqs :
          /\ rpc[r] = "connect" => HeldBy(r) = {} /\ ~rran[r] /\ Ended(r) = 0
          /\ rpc[r] = "begin" => Acquired(r) /\ ~Conn(r).intxn /\ ~rran[r]
          /\ rpc[r] = "setRole" =>
               InTransaction(r) /\ Conn(r).loc.role = LOGIN_ROLE /\ rrow[r] = <<>> /\ ~rran[r]
          /\ rpc[r] \in {"refreshSuperadmin", "refreshCompany", "refreshSelect"} =>
               RoleSwitched(r) /\ rrow[r] = <<>> /\ rdata[r].userId # NoId /\ ~rran[r]
          /\ rpc[r] \in {"rlsSuperadmin", "rlsCompany"} =>
               RoleSwitched(r) /\ ActorRefreshed(r) /\ ~rran[r] /\ Ended(r) = 0
          /\ rpc[r] = "handler" =>
               SessionBound(r) /\ ActorRefreshed(r) /\ rran[r] /\ Ended(r) = 0
          /\ rpc[r] \in {"commit", "rollback"} =>
               SessionBound(r) /\ rran[r] /\ Ended(r) = 0
          /\ (rpc[r] = "release" /\ rran[r]) =>
               Acquired(r) /\ ~Conn(r).intxn /\ Ended(r) = 1 /\ nrelease[r] = 0)
  /\ [][\A r \in Reqs : \A co \in Companies :
          (rpc[r] = "handler" /\ HandlerQuery(r, co)) =>
            /\ SessionBound(r) /\ ActorRefreshed(r)
            /\ Allowed(conns[rconn[r]], co)
            /\ conns' = conns /\ rconn' = rconn]_vars

\* a handler that has made a query for a refreshed actor
C23_Witness ==
  \E r \in Reqs :
    /\ rpc[r] = "handler" /\ rlast[r] # NoCompany
    /\ Len(rrow[r]) = 1 /\ SessionBound(r)


\* ---------------------------------------------------------------------------
\* C24: transactions opened outside the interceptor end exactly once
\* ---------------------------------------------------------------------------

\* C24: every lookup that opened a transaction of its own has issued exactly
\* one of COMMIT and ROLLBACK by the time its connection is released, and has
\* released it once. Stated for the exits on which the database rejected no
\* statement (the not-found, ambiguous-username and no-scope paths among them).
C24_ExactlyOneEnd ==
  \A c \in Lookups :
    (opc[c] = "done" /\ ores[c] # "none" /\ ~ofault[c]) =>
      /\ orelease[c] = 1
      /\ ocommit[c] + orollback[c] = 1
      /\ ~otxn[c]


\* ---------------------------------------------------------------------------
\* C25: the monthly quota
\* ---------------------------------------------------------------------------

\* a per_vehicles_per_month row with a monthly limit
HasMonthlyLimit(row) ==
  row # NoBal /\ row.type = PER_VEHICLES_PER_MONTH /\ ~IsNull(row.monthlyLimit)

\* what is left of the quota of the current month
WithinQuota(row) ==
  (HasMonthlyLimit(row) /\ ~PeriodIsOld(row)) =>
    /\ ~IsNull(row.remaining)
    /\ Val(row.remaining) >= 0
    /\ Val(row.remaining) <= Val(row.monthlyLimit)

\* C25: the UPDATE of consumeMonthly on a per_vehicles_per_month row with limit
\* L, in its one step, (a) for a period that is null or older than the current
\* month sets periodStart to the current month and remaining to L - 1, and
\* succeeds only if L > 0; (b) otherwise takes 1 from remaining, and succeeds
\* only if remaining > 0; in every other case it answers BALANCE_EXCEEDED and
\* the row stays as it was. What remains within a month is never negative
\* and never above L, so at most L consumes of a month succeed.
C25_MonthlyQuota ==
  /\ [](WithinQuota(bal) /\ WithinQuota(bdirty))
  /\ [][\A t \in BalReqs :
          (bpc[t] = "consumeMonthly" /\ HasMonthlyLimit(UpdateTarget(t)) /\ consumeMonthly(t)) =>
            LET row == UpdateTarget(t)
                L == Val(row.monthlyLimit) IN
            IF PeriodIsOld(row) /\ L > 0
            THEN /\ bpc'[t] = "finish" /\ bowner' = t
                 /\ bdirty'.periodStart = Some(month) /\ bdirty'.remaining = Some(L - 1)
                 /\ bdirty'.type = row.type /\ bdirty'.monthlyLimit = row.monthlyLimit
            ELSE IF ~PeriodIsOld(row) /\ ~IsNull(row.remaining) /\ Val(row.remaining) > 0
            THEN /\ bpc'[t] = "finish" /\ bowner' = t
                 /\ bdirty'.periodStart = row.periodStart
                 /\ bdirty'.remaining = Some(Val(row.remaining) - 1)
                 /\ bdirty'.type = row.type /\ bdirty'.monthlyLimit = row.monthlyLimit
            ELSE /\ bres'[t] = "BALANCE_EXCEEDED" /\ bpc'[t] = "done"
                 /\ bal' = bal /\ bowner' # t /\ purchases' = purchases]_vars

\* one consume has started a new period and is committed, a later one in the
\* same month was refused
C25_Witness ==
  /\ HasMonthlyLimit(bal) /\ month > 0 /\ bal.periodStart = Some(month)
  /\ bal.remaining = Some(Val(bal.monthlyLimit) - 1)
  /\ \E t, u \in BalReqs :
       /\ bop[t].kind = "vehicle_create" /\ bres[t] = "ok"
       /\ bop[u].kind = "vehicle_create" /\ bres[u] = "BALANCE_EXCEEDED"


\* ---------------------------------------------------------------------------
\* C26: the purchase log
\* ---------------------------------------------------------------------------

\* the purchase row is the snapshot of the balance row
SnapshotOf(p, row) ==
  /\ p.totalAfter = row.total /\ p.remainingAfter = row.remaining
  /\ p.monthlyLimitAfter = row.monthlyLimit /\ p.periodStartAfter = row.periodStart

\* the UPDATE of a purchase, on the row as it stands when the UPDATE runs
PurchaseWrites(t) ==
  LET row == UpdateTarget(t)
      q == bop[t].quantity IN
  IF bop[t].type = PER_VEHICLES_PER_MONTH
  THEN /\ bdirty'.type = PER_VEHICLES_PER_MONTH
       /\ bdirty'.monthlyLimit = Some(q) /\ bdirty'.total = Some(q) /\ bdirty'.remaining = Some(q)
  ELSE /\ bdirty'.type = PER_MISSIONS
       /\ row.type = PER_MISSIONS =>
            /\ bdirty'.total = Some(OrZero(row.total) + q)
            /\ bdirty'.remaining = Some(OrZero(row.remaining) + q)

\* the log only grows, by the rows of the request that commits
LogAppendOnly ==
  /\ Len(purchases') >= Len(purchases)
  /\ SubSeq(purchases', 1, Len(purchases)) = purchases

\* C26: every purchase that succeeds appends exactly one purchase row, whose
\* totalAfter, remainingAfter, monthlyLimitAfter and periodStartAfter are the
\* values of the balance row right after the purchase; a per_missions top-up
\* adds the quantity to total and to remaining, a switch to
\* per_vehicles_per_month sets monthlyLimit = total = remaining = quantity;
\* purchase rows are never changed or removed; a caller who is not an admin
\* gets Forbidden and no row changes.
C26_PurchaseLog ==
  [][/\ LogAppendOnly
     /\ \A t \in BalReqs :
          /\ (bpc[t] = "purchaseUpdate" /\ PurchaseUpdate(t)) => PurchaseWrites(t)
          /\ (bpc[t] = "purchaseInsert" /\ PurchaseInsert(t)) =>
               /\ Len(bpend'[t]) = 1
               /\ SnapshotOf(bpend'[t][1], bdirty) /\ bdirty' = bdirty /\ bowner = t
               /\ bpend'[t][1].type = bop[t].type /\ bpend'[t][1].quantity = bop[t].quantity
          /\ (bpc[t] = "finish" /\ bop[t].kind = "purchase" /\ BalCommit(t)) =>
               /\ Len(purchases') = Len(purchases) + 1
               /\ SnapshotOf(purchases'[Len(purchases')], bal')
          /\ (bpc[t] = "finish" /\ bop[t].kind # "purchase" /\ BalCommit(t)) =>
               purchases' = purchases
          /\ \A op \in BalOps :
               (op.kind = "purchase" /\ ~op.admin /\ bpc[t] = "idle" /\ BalStart(t, op)) =>
                 /\ bres'[t] = "Forbidden" /\ bpc'[t] = "done"
                 /\ bal' = bal /\ bdirty' = bdirty /\ purchases' = purchases
                 /\ bpend' = bpend]_vars


\* ---------------------------------------------------------------------------
\* C28: conservation of a per_missions balance
\* ---------------------------------------------------------------------------

RECURSIVE SumOfQuantities(_)
SumOfQuantities(log) ==
  IF log = <<>> THEN 0 ELSE Head(log).quantity + SumOfQuantities(Tail(log))

\* the committed consume('mission_create') calls that took a unit
CommittedConsumes ==
  {t \in BalReqs : bop[t].kind = "mission_create" /\ bres[t] = "ok"
                   /\ shouldConsume(bop[t].kind, bcur[t])}

\* the balance was per_missions with a counted remaining from the start, and
\* every committed purchase was a per_missions purchase
OnlyPerMissions ==
  /\ binit # NoBal /\ binit.type = PER_MISSIONS /\ ~IsNull(binit.remaining)
  /\ \A i \in DOMAIN purchases : purchases[i].type = PER_MISSIONS

\* C28: for a per_missions balance, after any interleaving of committed
\* per_missions purchases and committed successful consumes, remaining is what
\* it was at the start plus the purchased quantities minus the number of
\* successful consumes.
C28_Conservation ==
  OnlyPerMissions =>
    /\ bal.type = PER_MISSIONS /\ ~IsNull(bal.remaining)
    /\ Val(bal.remaining) =
         Val(binit.remaining) + SumOfQuantities(purchases) - Cardinality(CommittedConsumes)


\* ---------------------------------------------------------------------------
\* C27: one successor per rotated token
\* ---------------------------------------------------------------------------

Successors(id) == {i \in TokIds : tokens[i].parent = id}
LiveRows(fam) == {i \in FamilyRows(fam) : ~tokens[i].isRevoked}

\* C27: two rotations that present the same valid token do not both succeed:
\* every token has at most one successor, and every family holds at most one
\* token that is not revoked.
C27_SingleSuccessor ==
  /\ \A id \in TokIds : Cardinality(Successors(id)) <= 1
  /\ \A fam \in 1..nextFamily : Cardinality(LiveRows(fam)) <= 1


\* ---------------------------------------------------------------------------
\* C29: a unit is charged only for a created entity
\* ---------------------------------------------------------------------------

\* request t is a consume that has taken its unit and not yet committed
HasConsumed(t) ==
  /\ bop[t].kind \in {"mission_create", "vehicle_create"}
  /\ bpc[t] = "finish" /\ bowner = t
  /\ shouldConsume(bop[t].kind, bcur[t])

\* the requests whose consume was followed by a failure of the handler
FailedAfterConsume ==
  {t \in BalReqs : bop[t].kind = "mission_create" /\ bres[t] = "error"}

\* C29: when the handler fails after its consume succeeded, the decrement
\* goes with the request's transaction: the committed row is the same before
\* and after the failed request, nothing of the request stays behind, and
\* the failed requests count for nothing in what remains at the end.
C29_ChargedOnlyIfCreated ==
  /\ [][\A t \in BalReqs :
          (HasConsumed(t) /\ BalFail(t)) =>
            /\ bal' = bal /\ bdirty' = NoBal /\ bowner' = 0
            /\ purchases' = purchases /\ bpend'[t] = <<>>
            /\ bres'[t] = "error" /\ bpc'[t] = "done"]_vars
  /\ []((/\ binit # NoBal /\ ~IsNull(binit.remaining)
         /\ BalQuiescent
         /\ \A t \in BalStarted : bop[t].kind = "mission_create")
        => bal.remaining = Some(Val(binit.remaining) - Cardinality(BalWith("ok"))))

\* a mission_create took the last unit and failed, a later one got the unit
C29_Witness ==
  /\ binit # NoBal /\ binit.remaining = Some(1)
  /\ BalQuiescent
  /\ \A t \in BalStarted : bop[t].kind = "mission_create"
  /\ FailedAfterConsume # {}
  /\ BalWith("ok") # {}
  /\ bal.remaining = Some(0)


\* ---------------------------------------------------------------------------
\* C30: a COMMIT that fails
\* ---------------------------------------------------------------------------

\* the COMMIT of request r was rejected
CommitFailed(r) == ncommit[r] = 1 /\ rerr[r] = "hung"

\* C30: when the COMMIT issued at the completion of the handler fails, the
\* connection is released once and the request eventually ends with an error
\* (asked only of a request whose client is still waiting for the answer).
C30_CommitFailureEnds ==
  \A r \in Reqs :
    (CommitFailed(r) /\ rcancel[r] = "no") ~>
      \/ (rpc[r] = "done" /\ rres[r] = "error" /\ nrelease[r] = 1)
      \/ rcancel[r] # "no"

====
